---------------------------- MODULE Spec2Model ----------------------------
(***************************************************************************)
(* A model of the two Adwaita generator programs held in                   *)
(* theme/adwaita_colors_generator.go:                                      *)
(*   - the colors-only program (lines 1-188): main, getColorFor;           *)
(*   - the theme generator (lines 190-736): main, generateColorScheme,     *)
(*     generateIcons, svgToPng.                                            *)
(* Text is modelled byte by byte, as a string of Go is: a string is the     *)
(* sequence of its bytes, each a one-character string (the character of    *)
(* that code, for a byte from 0x80 on), so that len, strings.Contains, the *)
(* two regular expressions, strings.Split and fmt.Sscanf are computed and  *)
(* not assumed.  A character beyond U+007F is the two, three or four bytes *)
(* of its UTF-8 encoding.                                                  *)
(* A file path is the sequence of its elements, and an element is the      *)
(* sequence of the parts of its name: <<"adwaita">> for a directory,       *)
(* <<"close", ".svg">> for a file with an extension, so that               *)
(* strings.TrimSuffix is computed too and a file name never passes for a   *)
(* directory of the same stem.                                             *)
(***************************************************************************)
EXTENDS Integers, Sequences, FiniteSets, TLC

(***************************************************************************)
(* Bounds of the model.                                                    *)
(***************************************************************************)
\* the longest fetched page, in table rows
MaxRows == 2
\* the longest fetched tar archive, in entries
MaxEntries == 2
\* how many times in a row the generator program is run
MaxRuns == 2

(***************************************************************************)
(* Strings.                                                                *)
(***************************************************************************)
\* strings.HasPrefix(s[i:], p), i counted from 1
PrefixAt(s, i, p) ==
    /\ i >= 1
    /\ i + Len(p) - 1 <= Len(s)
    /\ SubSeq(s, i, i + Len(p) - 1) = p

\* the first index >= from at which p occurs in s, 0 when there is none
IndexFrom(s, p, from) ==
    LET hits == {i \in from..(Len(s) - Len(p) + 1) : PrefixAt(s, i, p)}
    IN  IF hits = {} THEN 0 ELSE CHOOSE i \in hits : \A j \in hits : i <= j

\* strings.Contains
Contains(s, p) == IndexFrom(s, p, 1) # 0

\* strings.Split(s, sep) for a one-character separator
RECURSIVE Split(_, _)
Split(s, sep) ==
    LET i == IndexFrom(s, sep, 1)
    IN  IF i = 0 THEN <<s>>
        ELSE <<SubSeq(s, 1, i - 1)>> \o Split(SubSeq(s, i + Len(sep), Len(s)), sep)

\* the elements of a sequence
Range(s) == {s[i] : i \in DOMAIN s}

(***************************************************************************)
(* The two regular expressions (lines 296-302).                            *)
(***************************************************************************)
TrOpen == <<"<", "t", "r", ">">>
TrClose == <<"<", "/", "t", "r", ">">>
TtOpen == <<"<", "t", "t", ">">>
TtClose == <<"<", "/", "t", "t", ">">>
Rgba == <<"r", "g", "b", "a">>
Hash == <<"#">>
AtSign == <<"@">>
AtEncoded == <<"&", "#", "6", "4", ";">>
Comma == <<",">>

\* tableRowMatcher.FindAllStringSubmatch(s, -1) for (?s)<tr>(.*?)</tr>:
\* leftmost matches, each ending at the nearest </tr>; a match is
\* <<whole match, group 1>>
RECURSIVE FindAllRows(_, _)
FindAllRows(s, from) ==
    LET i == IndexFrom(s, TrOpen, from)
        j == IF i = 0 THEN 0 ELSE IndexFrom(s, TrClose, i + Len(TrOpen))
    IN  IF i = 0 \/ j = 0 THEN <<>>
        ELSE <<  <<SubSeq(s, i, j + Len(TrClose) - 1), SubSeq(s, i + Len(TrOpen), j - 1)>>  >>
             \o FindAllRows(s, j + Len(TrClose))

tableRowMatcher(s) == FindAllRows(s, 1)

\* the first index >= from of a <tt> that is followed by rgba or by #
RECURSIVE CellStart(_, _)
CellStart(s, from) ==
    LET i == IndexFrom(s, TtOpen, from)
    IN  IF i = 0 THEN 0
        ELSE IF PrefixAt(s, i + Len(TtOpen), Rgba) \/ PrefixAt(s, i + Len(TtOpen), Hash)
             THEN i
             ELSE CellStart(s, i + 1)

\* tableColorCellMatcher.FindAllStringSubmatch(s, -1) for
\* (?s)<tt>((?:rgba|#).*?)</tt>
RECURSIVE FindAllCells(_, _)
FindAllCells(s, from) ==
    LET i == CellStart(s, from)
        k == IF i = 0 THEN 0
             ELSE IF PrefixAt(s, i + Len(TtOpen), Rgba)
                  THEN i + Len(TtOpen) + Len(Rgba)
                  ELSE i + Len(TtOpen) + Len(Hash)
        j == IF i = 0 THEN 0 ELSE IndexFrom(s, TtClose, k)
    IN  IF i = 0 \/ j = 0 THEN <<>>
        ELSE <<  <<SubSeq(s, i, j + Len(TtClose) - 1), SubSeq(s, i + Len(TtOpen), j - 1)>>  >>
             \o FindAllCells(s, j + Len(TtClose))

tableColorCellMatcher(s) == FindAllCells(s, 1)

(***************************************************************************)
(* stringToColor (lines 721-736, and the same code at lines 174-188).      *)
(***************************************************************************)
HexDigits == <<"0", "1", "2", "3", "4", "5", "6", "7", "8", "9", "a", "b", "c", "d", "e", "f">>
UpperHexDigits == <<"0", "1", "2", "3", "4", "5", "6", "7", "8", "9", "A", "B", "C", "D", "E", "F">>

IsHex(c) == c \in Range(HexDigits) \cup Range(UpperHexDigits)
IsDec(c) == \E i \in 1..10 : HexDigits[i] = c

DigitVal(c) ==
    IF c \in Range(HexDigits)
    THEN (CHOOSE i \in DOMAIN HexDigits : HexDigits[i] = c) - 1
    ELSE (CHOOSE i \in DOMAIN UpperHexDigits : UpperHexDigits[i] = c) - 1

\* the spaces of one byte that fmt's isSpace holds, the newline apart: the
\* space, the tab, the carriage return, the form feed and the vertical tab
\* (U+000B)
VerticalTab == ""
Newline == "\n"
Spaces == {" ", "\t", "\r", "\f", VerticalTab}

\* the bytes 0x80 to 0x8A
SpaceTails == {"", "", "", "", "", "", "", "", "", "", ""}

\* the other spaces of isSpace, in UTF-8: U+0085 (C2 85), U+00A0 (C2 A0),
\* U+1680 (E1 9A 80), U+2000 to U+200A (E2 80 80 to E2 80 8A), U+2028
\* (E2 80 A8), U+2029 (E2 80 A9), U+202F (E2 80 AF), U+205F (E2 81 9F) and
\* U+3000 (E3 80 80)
WideSpaces ==
    {<<"Â", "">>, <<"Â", " ">>, <<"á", "", "">>,
     <<"â", "", "¨">>, <<"â", "", "©">>, <<"â", "", "¯">>,
     <<"â", "", "">>, <<"ã", "", "">>}
        \cup {<<"â", "", t>> : t \in SpaceTails}

\* isSpace of the character that starts at byte i: the bytes of the space
\* there, 0 when there is none (a newline is none)
SpaceWidth(s, i) ==
    IF i > Len(s) THEN 0
    ELSE IF s[i] \in Spaces THEN 1
    ELSE IF \E w \in WideSpaces : Len(w) = 2 /\ PrefixAt(s, i, w) THEN 2
    ELSE IF \E w \in WideSpaces : Len(w) = 3 /\ PrefixAt(s, i, w) THEN 3
    ELSE 0

\* ss.SkipSpace in a Sscanf: the index of the first byte at or after i that
\* starts no space; meeting a newline is the error "unexpected newline"
RECURSIVE SkipSpace(_, _)
SkipSpace(s, i) ==
    IF i > Len(s) THEN [err |-> FALSE, next |-> i]
    ELSE IF s[i] = Newline THEN [err |-> TRUE, next |-> i]
    ELSE IF SpaceWidth(s, i) > 0 THEN SkipSpace(s, i + SpaceWidth(s, i))
    ELSE [err |-> FALSE, next |-> i]

\* how many characters from i on are digits of the verb, at most width of
\* them; getBase counts the underscore among the digits of every base
RECURSIVE CountDigits(_, _, _, _)
CountDigits(s, i, hex, width) ==
    IF width = 0 \/ i > Len(s) THEN 0
    ELSE IF (hex /\ IsHex(s[i])) \/ (~hex /\ IsDec(s[i])) \/ s[i] = "_"
         THEN 1 + CountDigits(s, i + 1, hex, width - 1)
         ELSE 0

RECURSIVE NumVal(_, _)
NumVal(t, base) ==
    IF t = <<>> THEN 0
    ELSE NumVal(SubSeq(t, 1, Len(t) - 1), base) * base + DigitVal(t[Len(t)])

\* a verb with no width reads digits to the end of the input
NoWidth(s) == Len(s)

\* a token without the zeros it starts with
RECURSIVE StripZeros(_)
StripZeros(t) == IF t # <<>> /\ Head(t) = "0" THEN StripZeros(Tail(t)) ELSE t

\* strconv.ParseUint(tok, base, 64) and the check of scanUint that the value
\* fits 8 bits: an error for no digit, for an underscore (ParseUint takes
\* none when the base is given) and for a value above 255 (more than three
\* digits after the zeros is one)
ParseUint8(tok, base) ==
    IF tok = <<>> \/ "_" \in Range(tok) \/ Len(StripZeros(tok)) > 3
    THEN [err |-> TRUE, val |-> 0]
    ELSE IF NumVal(StripZeros(tok), base) > 255 THEN [err |-> TRUE, val |-> 0]
    ELSE [err |-> FALSE, val |-> NumVal(StripZeros(tok), base)]

\* ss.scanNumber and the conversion of its token, n characters from p on
ScanNumber(s, p, n, hex) ==
    [err |-> ParseUint8(SubSeq(s, p, p + n - 1), IF hex THEN 16 ELSE 10).err,
     val |-> ParseUint8(SubSeq(s, p, p + n - 1), IF hex THEN 16 ELSE 10).val,
     next |-> p + n]

\* the verb after the spaces sp that doScanf skipped
AfterSkipSpace(s, sp, hex, width) ==
    IF sp.err THEN [err |-> TRUE, val |-> 0, next |-> sp.next]
    ELSE ScanNumber(s, sp.next, CountDigits(s, sp.next, hex, width), hex)

\* ss.scanUint for a uint8: the spaces skipped, then the digits of the verb
\* (at most width of them); an error when there is no digit or the value does
\* not fit 8 bits.  Returns the value and the index after the token.
ScanUint8(s, i, hex, width) == AfterSkipSpace(s, SkipSpace(s, i), hex, width)

\* a literal of the format: it must be the next characters of the input
ScanLiteral(s, i, lit) ==
    IF PrefixAt(s, i, lit) THEN [err |-> FALSE, next |-> i + Len(lit)]
    ELSE [err |-> TRUE, next |-> i]

\* a space of the format (ss.advance): it takes one space of the input or
\* more, or the end of the input; a character that is no space is the error
\* "expected space in input to match format" and a newline the error
\* "newline in input does not match format".  The spaces after the first
\* are taken up to a newline, which is left in the input.
FormatSpace(s, i) ==
    IF i > Len(s) THEN [err |-> FALSE, next |-> i]
    ELSE IF SpaceWidth(s, i) = 0 THEN [err |-> TRUE, next |-> i]
    ELSE [err |-> FALSE, next |-> SkipSpace(s, i).next]

\* the three or four %02x fields after the #: the fields scanned before the
\* first error are stored, the others keep what they held
RECURSIVE ScanHexFields(_, _, _, _)
\* what follows the scan f of a %02x field: the fields that are left
AfterHexField(s, n, got, f) ==
    IF f.err THEN [err |-> TRUE, vals |-> got]
    ELSE ScanHexFields(s, f.next, n - 1, Append(got, f.val))

ScanHexFields(s, i, n, got) ==
    IF n = 0 THEN [err |-> FALSE, vals |-> got]
    ELSE AfterHexField(s, n, got, ScanUint8(s, i, TRUE, 2))

\* the %d fields of "rgba(%d, %d, %d, %f)", each followed by "," and a space
\* of the format
RECURSIVE ScanDecFields(_, _, _, _)
\* what follows the space sp of the format after a field: the fields left
AfterFormatSpace(s, i, n, vals, sp) ==
    IF sp.err THEN [err |-> TRUE, vals |-> vals, next |-> i]
    ELSE ScanDecFields(s, sp.next, n - 1, vals)

\* what follows the "," c after a field
AfterComma(s, i, n, vals, c) ==
    IF c.err THEN [err |-> TRUE, vals |-> vals, next |-> i]
    ELSE AfterFormatSpace(s, i, n, vals, FormatSpace(s, c.next))

\* what follows the scan f of a %d field: its "," and the space, then the
\* fields that are left
AfterDecField(s, i, n, got, f) ==
    IF f.err THEN [err |-> TRUE, vals |-> got, next |-> i]
    ELSE AfterComma(s, i, n, Append(got, f.val), ScanLiteral(s, f.next, Comma))

ScanDecFields(s, i, n, got) ==
    IF n = 0 THEN [err |-> FALSE, vals |-> got, next |-> i]
    ELSE AfterDecField(s, i, n, got, ScanUint8(s, i, FALSE, NoWidth(s)))

\* the value of field k of a scan, old when the scan stopped before it
Field(vals, k, old) == IF k <= Len(vals) THEN vals[k] ELSE old

(***************************************************************************)
(* The float32 of "%f".  The digits of a number may be too many for an     *)
(* integer of the checker, so the rounding to float32 is computed on       *)
(* natural numbers of any size, sequences of limbs.  A float32 is          *)
(* [class, neg, man, exp]: "nan", "inf", or the finite (+/-) man * 2^exp   *)
(* with man < 2^24 and exp >= -149.                                        *)
(***************************************************************************)
\* the size of a limb: a natural number is the sequence of its digits in
\* this base, the lowest first, with no zero at the high end
Limb == 2 ^ 15

LimbAt(a, i) == IF i <= Len(a) THEN a[i] ELSE 0

\* the limbs of a small number
RECURSIVE NatOfInt(_)
NatOfInt(n) == IF n = 0 THEN <<>> ELSE <<n % Limb>> \o NatOfInt(n \div Limb)

\* the number of bits of a small number
RECURSIVE BitLen(_)
BitLen(n) == IF n = 0 THEN 0 ELSE 1 + BitLen(n \div 2)

LimbBits == BitLen(Limb) - 1

\* the number of bits of a number
NatBitLen(a) == IF a = <<>> THEN 0 ELSE LimbBits * (Len(a) - 1) + BitLen(a[Len(a)])

RECURSIVE NatTrim(_)
NatTrim(a) == IF a # <<>> /\ a[Len(a)] = 0 THEN NatTrim(SubSeq(a, 1, Len(a) - 1)) ELSE a

\* a - b for a >= b
RECURSIVE NatSubFrom(_, _, _, _)
NatSubFrom(a, b, i, borrow) ==
    IF i > Len(a) THEN <<>>
    ELSE <<(LimbAt(a, i) + Limb - LimbAt(b, i) - borrow) % Limb>>
         \o NatSubFrom(a, b, i + 1, IF LimbAt(a, i) < LimbAt(b, i) + borrow THEN 1 ELSE 0)

NatSub(a, b) == NatTrim(NatSubFrom(a, b, 1, 0))

\* a * m + carry from limb i on, for m and carry below the base
RECURSIVE NatTimesFrom(_, _, _, _)
NatTimesFrom(a, m, i, carry) ==
    IF i > Len(a) THEN NatOfInt(carry)
    ELSE <<(a[i] * m + carry) % Limb>> \o NatTimesFrom(a, m, i + 1, (a[i] * m + carry) \div Limb)

\* a * m + c
NatTimesPlus(a, m, c) == NatTrim(NatTimesFrom(a, m, 1, c))

\* a * 2^k; a itself when k <= 0
NatShl(a, k) ==
    IF a = <<>> \/ k <= 0 THEN a
    ELSE [i \in 1..(k \div LimbBits) |-> 0] \o NatTimesPlus(a, 2 ^ (k % LimbBits), 0)

RECURSIVE NatLessFrom(_, _, _)
NatLessFrom(a, b, i) ==
    IF i = 0 THEN FALSE
    ELSE IF a[i] # b[i] THEN a[i] < b[i]
    ELSE NatLessFrom(a, b, i - 1)

NatLess(a, b) == Len(a) < Len(b) \/ (Len(a) = Len(b) /\ NatLessFrom(a, b, Len(a)))

\* a * 10^k; a itself when k <= 0
RECURSIVE NatTimesPow10(_, _)
NatTimesPow10(a, k) ==
    IF k <= 0 \/ a = <<>> THEN a ELSE NatTimesPow10(NatTimesPlus(a, 10, 0), k - 1)

\* the number of a run of decimal digits, after acc
RECURSIVE NatOfDec(_, _)
NatOfDec(ds, acc) ==
    IF ds = <<>> THEN acc
    ELSE IF acc = <<>> THEN NatOfDec(Tail(ds), NatOfInt(DigitVal(Head(ds))))
    ELSE NatOfDec(Tail(ds), NatTimesPlus(acc, 10, DigitVal(Head(ds))))

\* the number of a run of hexadecimal digits, after acc
RECURSIVE NatOfHex(_, _)
NatOfHex(ds, acc) ==
    IF ds = <<>> THEN acc
    ELSE IF acc = <<>> THEN NatOfHex(Tail(ds), NatOfInt(DigitVal(Head(ds))))
    ELSE NatOfHex(Tail(ds), NatTimesPlus(acc, 16, DigitVal(Head(ds))))

\* the float32 (+/-) man * 2^exp, with its mantissa shifted up to 24 bits as
\* far as the exponent allows
Float32(class, neg, man, exp) ==
    IF man = 0 THEN [class |-> class, neg |-> neg, man |-> 0, exp |-> 0]
    ELSE IF BitLen(man) < 24 /\ exp > -149
    THEN IF 24 - BitLen(man) < exp + 149
         THEN [class |-> class, neg |-> neg, man |-> man * 2 ^ (24 - BitLen(man)),
               exp |-> exp - (24 - BitLen(man))]
         ELSE [class |-> class, neg |-> neg, man |-> man * 2 ^ (exp + 149), exp |-> -149]
    ELSE [class |-> class, neg |-> neg, man |-> man, exp |-> exp]

Float32Zero == Float32("finite", FALSE, 0, 0)

\* floor(log2(n / d)) for n, d > 0
Log2(n, d) ==
    IF NatLess(NatShl(n, NatBitLen(d) - NatBitLen(n)), NatShl(d, NatBitLen(n) - NatBitLen(d)))
    THEN NatBitLen(n) - NatBitLen(d) - 1
    ELSE NatBitLen(n) - NatBitLen(d)

\* long division: the quotient q and the rest r of a by b, for a quotient
\* below 2^(k+1)
RECURSIVE DivStep(_, _, _, _)
DivStep(a, b, k, q) ==
    IF k < 0 THEN [q |-> q, r |-> a]
    ELSE IF NatLess(a, NatShl(b, k)) THEN DivStep(a, b, k - 1, q)
    ELSE DivStep(NatSub(a, NatShl(b, k)), b, k - 1, q + 2 ^ k)

\* the quotient rounded to the nearest, to the even one of two as near
RoundQuotient(d, b) ==
    IF NatLess(b, NatShl(d.r, 1)) THEN d.q + 1
    ELSE IF NatShl(d.r, 1) = b THEN d.q + (d.q % 2)
    ELSE d.q

\* the float32 of a mantissa that rounding may have carried to 2^24; a
\* value of 2^128 or more is the range error of strconv.ParseFloat
Renormalized(neg, man, exp) ==
    IF man = 2 ^ 24 THEN [err |-> exp + 1 >= 105, val |-> Float32("finite", neg, 2 ^ 23, exp + 1)]
    ELSE [err |-> man >= 2 ^ 23 /\ exp >= 105, val |-> Float32("finite", neg, man, exp)]

\* n / d rounded at the bit of weight 2^exp
RoundAt(n, d, neg, exp) ==
    Renormalized(neg, RoundQuotient(DivStep(NatShl(n, -exp), NatShl(d, exp), 23, 0),
                                    NatShl(d, exp)), exp)

\* the float32 nearest to n / d, for n, d > 0: 24 bits of mantissa, fewer
\* below 2^-126
Float32Of(n, d, neg) ==
    RoundAt(n, d, neg, IF Log2(n, d) - 23 < -149 THEN -149 ELSE Log2(n, d) - 23)

(***************************************************************************)
(* ss.floatToken and ss.convertFloat of fmt, strconv.ParseFloat.           *)
(***************************************************************************)
UpperLetters ==
    <<"A", "B", "C", "D", "E", "F", "G", "H", "I", "J", "K", "L", "M",
      "N", "O", "P", "Q", "R", "S", "T", "U", "V", "W", "X", "Y", "Z">>
LowerLetters ==
    <<"a", "b", "c", "d", "e", "f", "g", "h", "i", "j", "k", "l", "m",
      "n", "o", "p", "q", "r", "s", "t", "u", "v", "w", "x", "y", "z">>

lower(c) ==
    IF c \in Range(UpperLetters)
    THEN LowerLetters[CHOOSE i \in DOMAIN UpperLetters : UpperLetters[i] = c]
    ELSE c

Sign == {"+", "-"}
DecimalDigits == {HexDigits[i] : i \in 1..10} \cup {"_"}
HexadecimalDigits == Range(HexDigits) \cup Range(UpperHexDigits) \cup {"_"}

\* ss.accept: whether the character at i is one of ok
Accept(s, i, ok) == i <= Len(s) /\ s[i] \in ok

\* how many of the accepts of oks, joined by &&, take a character from i on
RECURSIVE AcceptAll(_, _, _)
AcceptAll(s, i, oks) ==
    IF oks = <<>> \/ ~Accept(s, i, Head(oks)) THEN 0
    ELSE 1 + AcceptAll(s, i + 1, Tail(oks))

\* "for s.accept(ok) {}": the index after the run
RECURSIVE AcceptRun(_, _, _)
AcceptRun(s, i, ok) == IF Accept(s, i, ok) THEN AcceptRun(s, i + 1, ok) ELSE i

\* floatToken, "exponent?": the exponent character, a sign, digits
TokenExponent(s, i, exp) ==
    IF Accept(s, i, exp)
    THEN AcceptRun(s, IF Accept(s, i + 1, Sign) THEN i + 2 ELSE i + 1, DecimalDigits)
    ELSE i

\* floatToken, "decimal point?": the period and the digits of the fraction
TokenFraction(s, i, digits) ==
    IF Accept(s, i, {"."}) THEN AcceptRun(s, i + 1, digits) ELSE i

\* floatToken, from "digits?" on
TokenNumber(s, i, hex) ==
    TokenExponent(s,
                  TokenFraction(s,
                                AcceptRun(s, i, IF hex THEN HexadecimalDigits ELSE DecimalDigits),
                                IF hex THEN HexadecimalDigits ELSE DecimalDigits),
                  IF hex THEN {"p", "P"} ELSE {"e", "E", "p", "P"})

\* floatToken after "Inf?", of which k letters were taken: the 0x, then the
\* number (the 0 taken without an x is one of its digits)
TokenAfterInf(s, i, k) ==
    IF k = 3 THEN i + 3
    ELSE IF AcceptAll(s, i + k, <<{"0"}, {"x", "X"}>>) = 2
    THEN TokenNumber(s, i + k + 2, TRUE)
    ELSE TokenNumber(s, i + k, FALSE)

\* floatToken after "leading sign?"
TokenAfterSign(s, i) ==
    TokenAfterInf(s, i, AcceptAll(s, i, <<{"i", "I"}, {"n", "N"}, {"f", "F"}>>))

\* floatToken after "NaN?", of which k letters were taken
TokenAfterNaN(s, i, k) ==
    IF k = 3 THEN i + 3
    ELSE TokenAfterSign(s, IF Accept(s, i + k, Sign) THEN i + k + 1 ELSE i + k)

\* ss.floatToken: the index after the token that starts at i
floatToken(s, i) ==
    TokenAfterNaN(s, i, AcceptAll(s, i, <<{"n", "N"}, {"a", "A"}, {"n", "N"}>>))

NoFloat == [err |-> TRUE, val |-> Float32Zero]

Unsigned(t) == IF t # <<>> /\ t[1] \in Sign THEN Tail(t) ELSE t

IsNegative(t) == t # <<>> /\ t[1] = "-"

LowerCase(t) == [i \in DOMAIN t |-> lower(t[i])]

\* special of strconv: "nan" without a sign; "inf" and "infinity", with a
\* sign or without, in any case of the letters
IsNaN(t) == LowerCase(t) = <<"n", "a", "n">>
IsInf(t) ==
    LowerCase(Unsigned(t)) \in {<<"i", "n", "f">>, <<"i", "n", "f", "i", "n", "i", "t", "y">>}

\* underscoreOK of strconv, from index i on, after a character of the
\* kind saw: "0" a digit or a base prefix, "_" an underscore, "!" another
RECURSIVE UnderscoreLoop(_, _, _, _)
UnderscoreLoop(t, i, hex, saw) ==
    IF i > Len(t) THEN saw # "_"
    ELSE IF IsDec(t[i]) \/ (hex /\ IsHex(t[i])) THEN UnderscoreLoop(t, i + 1, hex, "0")
    ELSE IF t[i] = "_" THEN saw = "0" /\ UnderscoreLoop(t, i + 1, hex, "_")
    ELSE saw # "_" /\ UnderscoreLoop(t, i + 1, hex, "!")

\* underscoreOK for a token u without its sign
UnderscoreUnsigned(u) ==
    IF Len(u) >= 2 /\ u[1] = "0" /\ lower(u[2]) \in {"b", "o", "x"}
    THEN UnderscoreLoop(u, 3, lower(u[2]) = "x", "0")
    ELSE UnderscoreLoop(u, 1, FALSE, "^")

underscoreOK(t) == UnderscoreUnsigned(Unsigned(t))

\* the loop "digits" of readFloat from index i on: the digits before and
\* after the period, whether an underscore was met, the index it stops at
RECURSIVE MantissaLoop(_, _, _, _)
MantissaLoop(t, i, hex, st) ==
    IF i > Len(t) THEN [st EXCEPT !.next = i]
    ELSE IF t[i] = "_"
         THEN IF st.underscores THEN MantissaLoop(t, i + 1, hex, st)
              ELSE MantissaLoop(t, i + 1, hex, [st EXCEPT !.underscores = TRUE])
    ELSE IF t[i] = "."
         THEN IF st.sawdot THEN [st EXCEPT !.next = i]
              ELSE MantissaLoop(t, i + 1, hex, [st EXCEPT !.sawdot = TRUE])
    ELSE IF IsDec(t[i]) \/ (hex /\ IsHex(t[i]))
         THEN IF st.sawdot
              THEN MantissaLoop(t, i + 1, hex, [st EXCEPT !.frac = Append(@, t[i])])
              ELSE MantissaLoop(t, i + 1, hex, [st EXCEPT !.int = Append(@, t[i])])
    ELSE [st EXCEPT !.next = i]

NoMantissa ==
    [sawdot |-> FALSE, int |-> <<>>, frac |-> <<>>, underscores |-> FALSE, next |-> 0]

\* the digits of the exponent of readFloat from index i on; the value stops
\* growing at 10000
RECURSIVE ExponentLoop(_, _, _)
ExponentLoop(t, i, st) ==
    IF i <= Len(t) /\ t[i] = "_"
    THEN IF st.underscores THEN ExponentLoop(t, i + 1, st)
         ELSE ExponentLoop(t, i + 1, [st EXCEPT !.underscores = TRUE])
    ELSE IF i <= Len(t) /\ IsDec(t[i])
    THEN IF st.e < 10000
         THEN ExponentLoop(t, i + 1, [st EXCEPT !.e = @ * 10 + DigitVal(t[i])])
         ELSE ExponentLoop(t, i + 1, st)
    ELSE [st EXCEPT !.next = i]

NoExponent(i) == [ok |-> TRUE, e |-> 0, underscores |-> FALSE, next |-> i]

\* the exponent after its sign: a digit must come first
ExponentDigits(t, i, neg) ==
    IF i > Len(t) \/ ~IsDec(t[i]) THEN [NoExponent(i) EXCEPT !.ok = FALSE]
    ELSE [ExponentLoop(t, i, NoExponent(i)) EXCEPT !.e = IF neg THEN -@ ELSE @]

\* the exponent of readFloat, i the index after its e or p
ReadExponent(t, i) ==
    IF i > Len(t) THEN [NoExponent(i) EXCEPT !.ok = FALSE]
    ELSE ExponentDigits(t, IF t[i] \in Sign THEN i + 1 ELSE i, t[i] = "-")

\* what readFloat returns after the mantissa m and the exponent x
ReadResult(t, hex, m, x) ==
    [ok |-> /\ x.ok
            /\ (m.underscores \/ x.underscores) => underscoreOK(SubSeq(t, 1, x.next - 1)),
     neg |-> IsNegative(t), hex |-> hex, int |-> m.int, frac |-> m.frac,
     e |-> x.e, next |-> x.next]

\* readFloat after the mantissa m: a number needs a digit, and a
\* hexadecimal number its p exponent
AfterMantissa(t, hex, m) ==
    IF m.int \o m.frac = <<>> THEN ReadResult(t, hex, m, [NoExponent(m.next) EXCEPT !.ok = FALSE])
    ELSE IF m.next <= Len(t) /\ lower(t[m.next]) = (IF hex THEN "p" ELSE "e")
    THEN ReadResult(t, hex, m, ReadExponent(t, m.next + 1))
    ELSE ReadResult(t, hex, m, [NoExponent(m.next) EXCEPT !.ok = ~hex])

\* readFloat for a token whose number starts at index i (after the sign)
ReadFrom(t, i) ==
    IF i + 2 <= Len(t) /\ t[i] = "0" /\ lower(t[i + 1]) = "x"
    THEN AfterMantissa(t, TRUE, MantissaLoop(t, i + 2, TRUE, NoMantissa))
    ELSE AfterMantissa(t, FALSE, MantissaLoop(t, i, FALSE, NoMantissa))

\* readFloat of strconv
readFloat(t) == ReadFrom(t, IF t # <<>> /\ t[1] \in Sign THEN 2 ELSE 1)

\* the float32 of the decimal digits sig (no zero first) times 10^e10: above
\* 10^39 it is out of the range, below 10^-46 it rounds to zero
atof32Dec(neg, sig, e10) ==
    IF sig = <<>> THEN [err |-> FALSE, val |-> Float32("finite", neg, 0, 0)]
    ELSE IF Len(sig) + e10 >= 40 THEN NoFloat
    ELSE IF Len(sig) + e10 <= -46 THEN [err |-> FALSE, val |-> Float32("finite", neg, 0, 0)]
    ELSE Float32Of(NatTimesPow10(NatOfDec(sig, <<>>), e10), NatTimesPow10(<<1>>, -e10), neg)

\* the float32 of the number m times 2^e2 (atofHex): 2^128 and above is out
\* of the range, below 2^-151 it rounds to zero
atof32Hex(neg, m, e2) ==
    IF m = <<>> THEN [err |-> FALSE, val |-> Float32("finite", neg, 0, 0)]
    ELSE IF NatBitLen(m) + e2 >= 129 THEN NoFloat
    ELSE IF NatBitLen(m) + e2 <= -151 THEN [err |-> FALSE, val |-> Float32("finite", neg, 0, 0)]
    ELSE Float32Of(NatShl(m, e2), NatShl(<<1>>, -e2), neg)

\* the float32 of what readFloat read of a token of n characters, all of
\* which it must have read
FloatOfRead(r, n) ==
    IF ~r.ok \/ r.next # n + 1 THEN NoFloat
    ELSE IF r.hex
    THEN atof32Hex(r.neg, NatOfHex(StripZeros(r.int \o r.frac), <<>>), r.e - 4 * Len(r.frac))
    ELSE atof32Dec(r.neg, StripZeros(r.int \o r.frac), r.e - Len(r.frac))

\* strconv.ParseFloat(t, 32)
ParseFloat(t) ==
    IF IsNaN(t) THEN [err |-> FALSE, val |-> Float32("nan", FALSE, 0, 0)]
    ELSE IF IsInf(t) THEN [err |-> FALSE, val |-> Float32("inf", IsNegative(t), 0, 0)]
    ELSE FloatOfRead(readFloat(t), Len(t))

MaxInt64 ==
    <<"9", "2", "2", "3", "3", "7", "2", "0", "3", "6", "8", "5", "4", "7", "7", "5", "8", "0", "7">>

\* whether a is above b, for two runs of as many digits
RECURSIVE DigitsAbove(_, _)
DigitsAbove(a, b) ==
    /\ a # <<>>
    /\ \/ DigitVal(Head(a)) > DigitVal(Head(b))
       \/ Head(a) = Head(b) /\ DigitsAbove(Tail(a), Tail(b))

\* whether strconv.Atoi fails on a token of digits sig (no zero first) after
\* its sign: a value above 2^63 - 1 (below -2^63) is out of the range of an
\* int of 64 bits
AtoiFails(u, sig, neg) ==
    \/ u = <<>>
    \/ \E i \in DOMAIN u : ~IsDec(u[i])
    \/ Len(sig) > Len(MaxInt64)
    \/ /\ Len(sig) = Len(MaxInt64)
       /\ DigitsAbove(sig, MaxInt64)
       /\ ~(neg /\ sig = [MaxInt64 EXCEPT ![Len(MaxInt64)] = "8"])

\* strconv.Atoi: the int is its sign and its magnitude, a number of any size
AtoiDigits(u, sig, neg) ==
    IF AtoiFails(u, sig, neg) THEN [err |-> TRUE, neg |-> FALSE, mag |-> <<>>]
    ELSE [err |-> FALSE, neg |-> neg /\ sig # <<>>, mag |-> NatOfDec(sig, <<>>)]

Atoi(t) == AtoiDigits(Unsigned(t), StripZeros(Unsigned(t)), IsNegative(t))

\* the integer q with the rest r of a division by unit, rounded to the
\* nearest, to the even one of two as near
RoundInt(q, r, unit) ==
    IF 2 * r > unit THEN q + 1
    ELSE IF 2 * r = unit THEN q + (q % 2)
    ELSE q

\* float32(man * 2^x) for 0 < man < 2^24
Float32OfScaled(neg, man, x) ==
    IF BitLen(man) + x > 128 THEN Float32("inf", neg, 0, 0)
    ELSE IF x >= -149 THEN Float32("finite", neg, man, x)
    ELSE IF -149 - x >= 25 THEN Float32("finite", neg, 0, 0)
    ELSE Float32("finite", neg,
                 RoundInt(man \div 2 ^ (-149 - x), man % 2 ^ (-149 - x), 2 ^ (-149 - x)),
                 -149)

\* the exponent math.Ldexp reads in the bits of v: v is 1.xxx * 2^Exponent(v)
Exponent(v) == BitLen(v.man) - 1 + v.exp

TwoTo63 == NatShl(<<1>>, 63)

\* whether "exp += e" of math.Ldexp leaves the 64 bits of the int exp = m and
\* wraps around, for the exponent e of a float
Wraps(m, e) ==
    IF m.neg THEN e < 0 /\ NatLess(NatSub(TwoTo63, NatOfInt(-e)), m.mag)
    ELSE e > 0 /\ NatLess(NatSub(TwoTo63, NatOfInt(e + 1)), m.mag)

\* an int of Atoi below 2^30 either way, and its value
IsSmall(m) == Len(m.mag) <= 2
IntOf(m) ==
    IF m.neg THEN -(LimbAt(m.mag, 1) + Limb * LimbAt(m.mag, 2))
    ELSE LimbAt(m.mag, 1) + Limb * LimbAt(m.mag, 2)

\* float32(math.Ldexp(v, m)) for a finite v that is not zero: the sum of m
\* and the exponent of v is compared with -1075 (below it the result is
\* zero) and 1023 (above it, infinite) after it wrapped around, so that an m
\* next to 2^63 gives zero and one next to -2^63 gives infinity
LdexpFinite(v, m) ==
    IF IsSmall(m) THEN Float32OfScaled(v.neg, v.man, v.exp + IntOf(m))
    ELSE IF m.neg
    THEN (IF Wraps(m, Exponent(v)) THEN Float32("inf", v.neg, 0, 0)
          ELSE Float32("finite", v.neg, 0, 0))
    ELSE (IF Wraps(m, Exponent(v)) THEN Float32("finite", v.neg, 0, 0)
          ELSE Float32("inf", v.neg, 0, 0))

\* float32(math.Ldexp(f, m)) of convertFloat, for the results f of ParseFloat
\* and m of Atoi
Ldexp(f, m) ==
    IF f.err \/ m.err THEN NoFloat
    ELSE IF f.val.class # "finite" \/ f.val.man = 0 THEN f
    ELSE [err |-> FALSE, val |-> LdexpFinite(f.val, m)]

hasX(t) == \E i \in DOMAIN t : t[i] \in {"x", "X"}

\* convertFloat for a token whose first p is at index p (0: there is none):
\* a decimal mantissa with a binary exponent is evaluated here, every other
\* token by ParseFloat
ConvertAt(t, p) ==
    IF p # 0 /\ ~hasX(t)
    THEN Ldexp(ParseFloat(SubSeq(t, 1, p - 1)), Atoi(SubSeq(t, p + 1, Len(t))))
    ELSE ParseFloat(t)

\* ss.convertFloat(t, 32)
convertFloat(t) == ConvertAt(t, IndexFrom(t, <<"p">>, 1))

\* the result of the verb for the token that ends before next: the operand
\* keeps its zero when the conversion fails
FloatAt(f, next) ==
    [err |-> f.err, val |-> IF f.err THEN Float32Zero ELSE f.val, next |-> next]

\* the verb %f after the spaces sp: a token, and its conversion
FloatAfterSpace(s, sp) ==
    IF sp.err \/ sp.next > Len(s) THEN [err |-> TRUE, val |-> Float32Zero, next |-> sp.next]
    ELSE FloatAt(convertFloat(SubSeq(s, sp.next, floatToken(s, sp.next) - 1)),
                 floatToken(s, sp.next))

\* the verb %f into a float32: the spaces skipped, then the token of
\* floatToken, converted by convertFloat
ScanFloat(s, i) == FloatAfterSpace(s, SkipSpace(s, i))

(***************************************************************************)
(* uint8(a * 255) (lines 733 and 185).  The product is a float32 product.  *)
(* Go leaves open what the conversion gives when the product has no uint8  *)
(* (it is above 255, negative, infinite or no number): "the result value   *)
(* is implementation-dependent".  The build decides, one way for all the   *)
(* conversions of a run: the compiler converts the float32 to an int32 and  *)
(* keeps its low 8 bits, and the processor decides what the int32 is when   *)
(* none holds the float.                                                   *)
(***************************************************************************)
VARIABLE narrowing   \* what the build makes of a float32 that no uint8 holds

\* the builds: on amd64 the int32 of a float that none holds is -2^31, whose
\* low 8 bits are 0; on arm64 it is the nearest int32, 2^31 - 1 above (low
\* 8 bits 255), -2^31 below, and 0 for what is no number
Narrowings == {"amd64", "arm64"}

\* the product of a mantissa by 255 = 256 - 1, as hi * 256 + lo
TimesHi(man) == man - man \div 256 - (IF man % 256 = 0 THEN 0 ELSE 1)
TimesLo(man) == (256 - (man % 256)) % 256

\* the float32 (+/-) p * 2^exp for a product p of up to 31 bits
ProductRounded(neg, p, exp, drop) ==
    Renormalized(neg, RoundInt(p \div 2 ^ drop, p % 2 ^ drop, 2 ^ drop), exp + drop)

\* the float32 (+/-) (hi * 256 + lo) * 2^exp
ProductOf(neg, hi, lo, exp) ==
    IF hi >= 2 ^ 23 THEN Renormalized(neg, RoundInt(hi, lo, 256), exp + 8)
    ELSE ProductRounded(neg, hi * 256 + lo, exp,
                        IF BitLen(hi * 256 + lo) > 24 THEN BitLen(hi * 256 + lo) - 24 ELSE 0)

\* a product, infinite when it left the range of float32
Overflowed(r) == IF r.err THEN Float32("inf", r.val.neg, 0, 0) ELSE r.val

\* the float32 product a * 255
Times255(a) ==
    IF a.class # "finite" \/ a.man = 0 THEN a
    ELSE Overflowed(ProductOf(a.neg, TimesHi(a.man), TimesLo(a.man), a.exp))

\* the integer a finite float32 below 2^24 truncates to, its sign apart
IntPart(x) == IF -x.exp > 24 THEN 0 ELSE x.man \div 2 ^ (-x.exp)

\* whether a uint8 holds what the float32 truncates to
FitsUint8(x) ==
    /\ x.class = "finite"
    /\ \/ x.man = 0
       \/ x.exp < 0 /\ IntPart(x) <= 255 /\ (x.neg => IntPart(x) = 0)

\* the low 8 bits of the integer the magnitude of a finite x truncates to
\* (a float32 with exp >= 8 is a multiple of 256)
Low8Magnitude(x) ==
    IF x.exp >= 8 THEN 0
    ELSE IF x.exp >= 0 THEN ((x.man % 256) * 2 ^ x.exp) % 256
    ELSE IntPart(x) % 256

\* the low 8 bits of the integer x truncates to, in two's complement; 0 when
\* no int32 holds it (it is 2^31 then, a multiple of 256 as well)
Low8(x) ==
    IF x.class # "finite" THEN 0
    ELSE IF x.neg THEN (256 - Low8Magnitude(x)) % 256
    ELSE Low8Magnitude(x)

\* whether x is 2^31 or more, +Inf included
AboveInt32(x) ==
    /\ x.class # "nan" /\ ~x.neg
    /\ x.class = "inf" \/ BitLen(x.man) + x.exp > 31

\* the low 8 bits of the int32 nearest to what x truncates to
Low8Saturated(x) == IF AboveInt32(x) THEN 255 ELSE Low8(x)

\* uint8(x)
Uint8Of(x) ==
    IF FitsUint8(x) THEN (IF x.man = 0 THEN 0 ELSE IntPart(x))
    ELSE IF narrowing = "arm64" THEN Low8Saturated(x)
    ELSE Low8(x)

\* uint8(a * 255) for the float32 a
AlphaOf(a) == Uint8Of(Times255(a))

\* fmt.Sscanf(s, "#%02x%02x%02x", ...) and, with n = 4, its four-field form
SscanfHex(s, n) ==
    LET h == ScanLiteral(s, 1, Hash)
    IN  IF h.err THEN [err |-> TRUE, vals |-> <<>>]
        ELSE ScanHexFields(s, h.next, n, <<>>)

\* HexColor without the "c.A = 0xff" that stringToColor starts with
HexColor_NoDefaultAlpha(f) ==
    [c |-> [R |-> Field(f.vals, 1, 0), G |-> Field(f.vals, 2, 0),
            B |-> Field(f.vals, 3, 0), A |-> Field(f.vals, 4, 0)],
     err |-> f.err]

\* c after the scan f of the hexadecimal form: c.A keeps 0xff when no fourth
\* field was stored
HexColor(f) ==
    [c |-> [R |-> Field(f.vals, 1, 0), G |-> Field(f.vals, 2, 0),
            B |-> Field(f.vals, 3, 0), A |-> Field(f.vals, 4, 255)],
     err |-> f.err]

\* the "rgba(%d, %d, %d, " of fmt.Sscanf(s, "rgba(%d, %d, %d, %f)", ...)
SscanfRgbaInts(s) ==
    LET h == ScanLiteral(s, 1, Rgba \o <<"(">>)
    IN  IF h.err THEN [err |-> TRUE, vals |-> <<>>, next |-> 1]
        ELSE ScanDecFields(s, h.next, 3, <<>>)

\* the "%f" after the scan d of the three integers; a keeps 0 when the scan
\* stopped before it
SscanfRgbaFloat(s, d) ==
    IF d.err THEN [err |-> TRUE, val |-> Float32Zero, next |-> 1]
    ELSE ScanFloat(s, d.next)

\* c after the scans d and a of the rgba form, which ends with ")":
\* c.A = uint8(a * 255) whatever the scan returned
RgbaColor(s, d, a) ==
    [c |-> [R |-> Field(d.vals, 1, 0), G |-> Field(d.vals, 2, 0),
            B |-> Field(d.vals, 3, 0), A |-> AlphaOf(a.val)],
     err |-> IF a.err THEN TRUE ELSE ScanLiteral(s, a.next, <<")">>).err]

\* the default case of the switch
RgbaForm(s, d) == RgbaColor(s, d, SscanfRgbaFloat(s, d))

\* the switch is on len(s), the number of bytes of s
stringToColor(s) ==
    CASE Len(s) = 7 -> HexColor(SscanfHex(s, 3))
      [] Len(s) = 9 -> HexColor(SscanfHex(s, 4))
      [] OTHER -> RgbaForm(s, SscanfRgbaInts(s))

ZeroColor == [R |-> 0, G |-> 0, B |-> 0, A |-> 0]

(***************************************************************************)
(* The name tables.  Each is a part of the table of the source, chosen to  *)
(* keep every shape the source's table has: two theme names that share one *)
(* Adwaita name, values of one name and of two comma-separated names, the  *)
(* scroll bar's special case.                                              *)
(***************************************************************************)
view_bg_color == <<"v", "i", "e", "w", "_", "b", "g", "_", "c", "o", "l", "o", "r">>
shade_color == <<"s", "h", "a", "d", "e", "_", "c", "o", "l", "o", "r">>
success_color == <<"s", "u", "c", "c", "e", "s", "s", "_", "c", "o", "l", "o", "r">>
red_3 == <<"r", "e", "d", "_", "3">>
red_4 == <<"r", "e", "d", "_", "4">>
dark_2 == <<"d", "a", "r", "k", "_", "2">>
dark_5 == <<"d", "a", "r", "k", "_", "5">>
light_1 == <<"l", "i", "g", "h", "t", "_", "1">>

\* colorToGet of the colors-only program (lines 66-77)
colorToGetOld ==
    [k \in {"theme.ColorNameInputBackground", "theme.ColorNameShadow",
            "theme.ColorNameSuccess"} |->
        CASE k = "theme.ColorNameInputBackground" -> view_bg_color
          [] k = "theme.ColorNameShadow" -> shade_color
          [] k = "theme.ColorNameSuccess" -> success_color]

\* colorToGet of the theme generator (lines 305-318)
colorToGet ==
    [k \in {"theme.ColorNameOverlayBackground", "theme.ColorNameInputBackground",
            "theme.ColorNameShadow"} |->
        CASE k = "theme.ColorNameOverlayBackground" -> view_bg_color
          [] k = "theme.ColorNameInputBackground" -> view_bg_color
          [] k = "theme.ColorNameShadow" -> shade_color]

\* standardColorToGet (lines 322-333)
standardColorToGet ==
    [k \in {"theme.ColorRed", "theme.ColorGray", "theme.ColorNameScrollBar"} |->
        CASE k = "theme.ColorRed" -> red_3 \o Comma \o red_4
          [] k = "theme.ColorGray" -> dark_2
          [] k = "theme.ColorNameScrollBar" -> dark_5 \o Comma \o light_1]

\* the keys in the order of Go's string comparison, which is the order in
\* which text/template ranges over a map
KeyOrder ==
    <<"theme.ColorGray", "theme.ColorNameInputBackground",
      "theme.ColorNameOverlayBackground", "theme.ColorNameScrollBar",
      "theme.ColorNameShadow", "theme.ColorNameSuccess", "theme.ColorRed">>

SortedKeys(S) == SelectSeq(KeyOrder, LAMBDA k : k \in S)

(***************************************************************************)
(* The pages the documentation site may serve: up to MaxRows table rows,   *)
(* each one of RowPool.  A row names the colour it defines (after an @,    *)
(* HTML-encoded or not), may say more in a note, and gives its colours in  *)
(* <tt> cells.                                                             *)
(***************************************************************************)
TdOpen == <<"<", "t", "d", ">">>
TdClose == <<"<", "/", "t", "d", ">">>

RowPool ==
    << [name |-> view_bg_color, enc |-> TRUE, note |-> <<>>,
        cells |-> << <<"#", "f", "f", "f", "f", "f", "f">>,
                     <<"#", "1", "e", "1", "e", "1", "e">> >>],
       [name |-> shade_color, enc |-> FALSE,
        note |-> <<" ", "o", "v", "e", "r", " ">> \o AtSign \o view_bg_color,
        cells |-> << <<"r", "g", "b", "a", "(", "0", ",", " ", "0", ",", " ", "0", ",", " ", "0", ".", "0", "7", ")">>,
                     <<"r", "g", "b", "a", "(", "0", ",", " ", "0", ",", " ", "0", ",", " ", "0", ".", "3", "6", ")">> >>],
       [name |-> red_3, enc |-> FALSE, note |-> <<>>,
        cells |-> << <<"#", "e", "0", "1", "b", "2", "4">> >>],
       [name |-> red_4, enc |-> TRUE,
        note |-> <<" ", "o", "n", " ">> \o AtSign \o shade_color,
        cells |-> << <<"#", "c", "0", "1", "c", "2", "8">> >>],
       [name |-> dark_2, enc |-> FALSE, note |-> <<>>,
        cells |-> << <<"#", "1", "2", "g", "4", "5", "6">> >>],
       [name |-> shade_color, enc |-> TRUE, note |-> <<>>,
        cells |-> << <<"r", "g", "b", "a", "(", "0", ",", " ", "0", ",", " ", "0", ",", " ", "0", ".", "9", "7", "2", "5", "4", "9", ")">>,
                     <<"r", "g", "b", "a", "(", "0", ",", " ", "0", ",", " ", "0", ")">> >>],
       [name |-> dark_5, enc |-> FALSE, note |-> <<>>, cells |-> <<>>],
       [name |-> success_color, enc |-> FALSE, note |-> <<>>,
        cells |-> << <<"#", "2", "6", "a", "2", "6", "9", "8", "0">>,
                     <<"r", "g", "b", "a", "(", "3", "8", ",", " ", "1", "6", "2", ",", " ", "1", "0", "5", ",", " ", "0", ".", "5">>,
                     <<"r", "g", "b", "a", "(", "0", ",", " ", "0", ",", " ", "0", ",", " ", "1">>,
                     \* "#1234" and the two bytes, C3 A9, of U+00E9
                     <<"#", "1", "2", "3", "4", "Ã", "©">> >>],
       [name |-> shade_color, enc |-> FALSE, note |-> <<>>,
        cells |-> << <<"r", "g", "b", "a", "(", "0", ",", " ", "0", ",", " ", "0", ",", " ", "1", ".", "5", ")">>,
                     <<"r", "g", "b", "a", "(", "0", ",", " ", "0", ",", " ", "0", ",", " ",
                       "1", "0", "0", "0", "0", "0", "0", "0", "0", "0", "0", ")">>,
                     <<"r", "g", "b", "a", "(", "0", ",", " ", "0", ",", " ", "0", ",", " ", "-", "0", ".", "5", ")">> >>] >>

RECURSIVE CellsHtml(_)
CellsHtml(cells) ==
    IF cells = <<>> THEN <<>>
    ELSE TdOpen \o TtOpen \o Head(cells) \o TtClose \o TdClose \o CellsHtml(Tail(cells))

RowHtml(r) ==
    TrOpen \o TdOpen \o (IF r.enc THEN AtEncoded ELSE AtSign) \o r.name \o TdClose
        \o r.note \o CellsHtml(r.cells) \o TrClose

\* the text of a page: its rows, one after the other
RECURSIVE PageHtml(_)
PageHtml(p) == IF p = <<>> THEN <<>> ELSE RowHtml(RowPool[Head(p)]) \o PageHtml(Tail(p))

SeqsUpTo(S, n) == UNION {[1..m -> S] : m \in 0..n}

\* whether a uint8 holds the alpha of a colour string, so that the colour is
\* the same on every build
AlphaFits(s) == FitsUint8(Times255(SscanfRgbaFloat(s, SscanfRgbaInts(s)).val))

\* the rows with a colour that is not the same on every build
WideRows == {i \in DOMAIN RowPool : \E s \in Range(RowPool[i].cells) : ~AlphaFits(s)}

\* the pages of rows whose colours every build reads alike
Pages == SeqsUpTo(DOMAIN RowPool \ WideRows, MaxRows)

\* the pages of one row, the build being free
WidePages == {<<i>> : i \in WideRows}

(***************************************************************************)
(* The colour lookups.                                                     *)
(***************************************************************************)
\* the condition of lines 107, 497 and 515: the row's text holds @name
RowMentions(row, name) ==
    Contains(row[1], AtEncoded \o name) \/ Contains(row[1], AtSign \o name)

\* the row the loop "for _, row := range rows" stops at: the first one whose
\* text holds @name; 0 when the loop ends without one
FirstRowFor(rows, name) ==
    LET hits == {i \in DOMAIN rows : RowMentions(rows[i], name)}
    IN  IF hits = {} THEN 0 ELSE CHOOSE i \in hits : \A j \in hits : i <= j

\* the colour of cell n of a row: c[n-1][1] of the source; reading a cell the
\* row does not have is an index out of range, a run-time panic
\* the named results (col, err) a lookup returns with, from stringToColor's
Returned(r) == [col |-> r.c, err |-> r.err, panic |-> FALSE]

CellColor(row, n) ==
    LET c == tableColorCellMatcher(row[1])
    IN  IF Len(c) < n THEN [col |-> ZeroColor, err |-> FALSE, panic |-> TRUE]
        ELSE Returned(stringToColor(c[n][2]))

NotFound == [col |-> ZeroColor, err |-> FALSE, panic |-> FALSE]

\* getWidgetColorFor with the two cases of its switch exchanged
getWidgetColorFor_Swapped(rows, name, variant) ==
    LET i == FirstRowFor(rows, name)
    IN  IF i = 0 THEN NotFound
        ELSE CASE variant = "light" -> CellColor(rows[i], 2)
               [] variant = "dark" -> CellColor(rows[i], 1)
               [] OTHER -> NotFound

\* getWidgetColorFor (lines 494-510)
getWidgetColorFor(rows, name, variant) ==
    LET i == FirstRowFor(rows, name)
    IN  IF i = 0 THEN NotFound
        ELSE CASE variant = "light" -> CellColor(rows[i], 1)
               [] variant = "dark" -> CellColor(rows[i], 2)
               [] OTHER -> NotFound

\* getColorFor of the colors-only program (lines 104-120)
getColorFor(rows, name, variant) ==
    LET i == FirstRowFor(rows, name)
    IN  IF i = 0 THEN NotFound
        ELSE CASE variant = "light" -> CellColor(rows[i], 1)
               [] variant = "dark" -> CellColor(rows[i], 2)
               [] OTHER -> NotFound

\* getStandardColorFor returning an error when no row holds the name
getStandardColorFor_NotFoundIsError(rows, name) ==
    LET i == FirstRowFor(rows, name)
    IN  IF i = 0 THEN [col |-> ZeroColor, err |-> TRUE, panic |-> FALSE]
        ELSE CellColor(rows[i], 1)

\* getStandardColorFor (lines 512-523)
getStandardColorFor(rows, name) ==
    LET i == FirstRowFor(rows, name)
    IN  IF i = 0 THEN NotFound ELSE CellColor(rows[i], 1)

\* StandardNames with the two names taken in the other order
StandardNames_Swapped(color) ==
    LET colors == Split(color, Comma)
    IN  IF Len(colors) = 2 THEN [light |-> colors[2], dark |-> colors[1]]
        ELSE [light |-> color, dark |-> color]

\* lines 545-551: the names the light and the dark colour are looked up under
StandardNames(color) ==
    LET colors == Split(color, Comma)
    IN  IF Len(colors) = 2 THEN [light |-> colors[1], dark |-> colors[2]]
        ELSE [light |-> color, dark |-> color]

\* lines 562-566
ScrollBarAlpha(colname, col) ==
    IF colname = "theme.ColorNameScrollBar" THEN [col EXCEPT !.A = 91] ELSE col

\* PutScheme keeping one entry per Adwaita name: the entry of the theme name
\* visited first
PutScheme_OncePerAdwName(scheme, colname, info) ==
    IF \E k \in DOMAIN scheme : scheme[k].AdwName = info.AdwName THEN scheme
    ELSE [k \in DOMAIN scheme \cup {colname} |-> IF k = colname THEN info ELSE scheme[k]]

\* scheme[colname] = info
PutScheme(scheme, colname, info) ==
    [k \in DOMAIN scheme \cup {colname} |-> IF k = colname THEN info ELSE scheme[k]]

(***************************************************************************)
(* The templates and go/format.                                            *)
(***************************************************************************)
\* %02x, and %02X when upper
Hex2(n, upper) ==
    LET d == IF upper THEN UpperHexDigits ELSE HexDigits
    IN  <<d[(n \div 16) + 1], d[(n % 16) + 1]>>

\* lines 132 and 136: the colour as the text of a Go literal, of which the
\* four channels are kept
SprintfRGBA(col) ==
    <<Hex2(col.R, FALSE), Hex2(col.G, FALSE), Hex2(col.B, FALSE), Hex2(col.A, FALSE)>>

\* sourceTpl (lines 29-54): the dark scheme, then the light one; a line per
\* key, the keys in sorted order
ExecuteSourceTpl(light, dark) ==
    LET line(s, k) == <<k, s[k].Col, s[k].AdwName>>
        lines(s) == [i \in 1..Len(SortedKeys(DOMAIN s)) |-> line(s, SortedKeys(DOMAIN s)[i])]
    IN  <<lines(dark), lines(light)>>

\* colorSourceTpl (lines 235-260): the light scheme prints G with %02X
ExecuteColorSourceTpl(light, dark) ==
    LET line(s, k, up) ==
            <<k, Hex2(s[k].Col.R, FALSE), Hex2(s[k].Col.G, up), Hex2(s[k].Col.B, FALSE),
              Hex2(s[k].Col.A, FALSE), s[k].AdwName>>
        lines(s, up) ==
            [i \in 1..Len(SortedKeys(DOMAIN s)) |-> line(s, SortedKeys(DOMAIN s)[i], up)]
    IN  <<lines(dark, FALSE), lines(light, TRUE)>>

\* format.Source: the same declarations, laid out by gofmt
FormatSource(buffer) == <<"gofmt", buffer>>

(***************************************************************************)
(* Files.  A path is the sequence of its elements from the root, each the  *)
(* sequence of the parts of its name (the stem, then the extension if the  *)
(* name has one); the file system is a function from the paths of the      *)
(* files that exist to their contents.                                     *)
(***************************************************************************)
\* the path element of a name with no extension
Elem(name) == <<name>>
\* the path of the directories named, one in the other
Dirs(names) == [i \in DOMAIN names |-> Elem(names[i])]
\* the path element of the file name stem + ext
FileName(stem, ext) == <<stem, ext>>

\* filepath.Clean of a rooted path: "" and "." are dropped, ".." drops the
\* element before it (and is dropped itself at the root)
RECURSIVE CleanInto(_, _)
CleanInto(done, rest) ==
    IF rest = <<>> THEN done
    ELSE IF Head(rest) = Elem("") \/ Head(rest) = Elem(".") THEN CleanInto(done, Tail(rest))
    ELSE IF Head(rest) = Elem("..")
         THEN CleanInto(IF done = <<>> THEN done ELSE SubSeq(done, 1, Len(done) - 1),
                        Tail(rest))
    ELSE CleanInto(Append(done, Head(rest)), Tail(rest))

\* filepath.Join(dir, name...)
Join(dir, name) == CleanInto(<<>>, dir \o name)

\* whether path lies in directory dir: its first elements are those of dir,
\* whole names each
Inside(path, dir) == Len(path) > Len(dir) /\ SubSeq(path, 1, Len(dir)) = dir

\* the file written (created or replaced) with content c
WriteFile(fs, path, c) ==
    [q \in DOMAIN fs \cup {path} |-> IF q = path THEN c ELSE fs[q]]

\* os.RemoveAll(dir)
RemoveAll(fs, dir) == [q \in {x \in DOMAIN fs : ~Inside(x, dir)} |-> fs[q]]

\* the content of a file, <<"absent">> when there is none
ReadFile(fs, path) == IF path \in DOMAIN fs THEN fs[path] ELSE <<"absent">>

NoFiles == [q \in {} |-> <<>>]
EmptyFile == <<>>

\* the directory the program is run in
WorkDir == Dirs(<<"work">>)
\* output (line 28) and colorSchemeOutput (line 231)
colorSchemeOutput == Join(WorkDir, <<FileName("adwaita_colors", ".go")>>)
\* iconsOutput (line 232)
iconsOutput == Join(WorkDir, <<FileName("adwaita_icons", ".go")>>)
\* the directory os.MkdirTemp("", "adwaita") makes (line 618)
tmpDir == Dirs(<<"tmp", "adwaita">>)

(***************************************************************************)
(* The state.                                                              *)
(***************************************************************************)
VARIABLES
    prog,         \* the program run: "colors" (lines 1-188) or "theme" (190-736)
    page,         \* the page the documentation site serves (rows of RowPool)
    archive,      \* the tar archive the icon repository serves
    inkscape,     \* whether exec.LookPath found inkscape (line 444)
    run,          \* the number of this run of the program
    pc,           \* the statement the program is at
    status,       \* "running", or how the process ended: "ok", "fatal", "panic"
    err,          \* the error a generate function is returning
    rows,         \* the local rows
    lightScheme,  \* the local lightScheme
    darkScheme,   \* the local darkScheme
    visited,      \* the keys the current range loop over a map has visited
    buffer,       \* the local buffer, then the formatted source
    icons,        \* the local icons
    tarPos,       \* the number of tar entries read
    tmpMade,      \* whether tmpDir was made and its removal deferred
    files,        \* the file system
    before,       \* the file system as this run found it
    stages,       \* the stages of the current generation, with their outcome
    writes,       \* how often this run wrote each output file
    last          \* what the generations of the previous run produced

env == <<prog, page, archive, inkscape, narrowing>>
locals == <<rows, lightScheme, darkScheme, visited, buffer, icons, tarPos>>
vars == <<prog, page, archive, inkscape, narrowing, run, pc, status, err, rows, lightScheme,
          darkScheme, visited, buffer, icons, tarPos, tmpMade, files, before,
          stages, writes, last>>

EmptyMap == [k \in {} |-> <<>>]

\* the page served while the archives vary, and the archive served while
\* the pages vary
DefaultPage == <<1, 3>>
DefaultArchive == <<>>
\* the build, for the pages whose colours every build reads alike
DefaultNarrowing == "amd64"

NoWrites == [f \in {colorSchemeOutput, iconsOutput} |-> 0]

NoLast ==
    [colorsOK |-> FALSE, light |-> EmptyMap, dark |-> EmptyMap, colorsFile |-> <<"absent">>,
     iconsOK |-> FALSE, icons |-> EmptyMap, iconsFile |-> <<"absent">>]

\* the record of a stage: appended, or the outcome of the stage under way
Log(st, stage, ok) ==
    IF st # <<>> /\ st[Len(st)].stage = stage
    THEN [st EXCEPT ![Len(st)].ok = ok]
    ELSE Append(st, [stage |-> stage, ok |-> ok])

ClearLocals ==
    /\ rows' = <<>>
    /\ lightScheme' = EmptyMap
    /\ darkScheme' = EmptyMap
    /\ visited' = {}
    /\ buffer' = <<>>
    /\ icons' = EmptyMap
    /\ tarPos' = 0

(***************************************************************************)
(* generateColorScheme (lines 475-602).                                    *)
(***************************************************************************)
\* lines 481-484: http.Get
G_Fetch ==
    /\ prog = "theme" /\ pc = "g_fetch"
    /\ \E ok \in BOOLEAN :
        /\ stages' = Log(stages, "fetch", ok)
        /\ IF ok THEN pc' = "g_read" /\ err' = err
                 ELSE pc' = "g_return" /\ err' = TRUE
    /\ UNCHANGED <<env, run, status, locals, tmpMade, files, before, writes, last>>

\* lines 486-491: io.ReadAll, then the rows of the page
G_ReadBody ==
    /\ pc = "g_read"
    /\ \E ok \in BOOLEAN :
        IF ok
        THEN /\ rows' = tableRowMatcher(PageHtml(page))
             /\ stages' = Log(stages, "extract", TRUE)
             /\ pc' = "g_widget" /\ err' = err
        ELSE /\ rows' = rows
             /\ stages' = Log(stages, "fetch", FALSE)
             /\ pc' = "g_return" /\ err' = TRUE
    /\ UNCHANGED <<env, run, status, lightScheme, darkScheme, visited, buffer, icons,
                   tarPos, tmpMade, files, before, writes, last>>

\* lines 527-541, given what the two calls of getWidgetColorFor returned: the
\* two checks of err, then the two assignments (the second call is not made
\* when the first one failed)
WidgetStore(light, dark, colname, color, lcol, dcol) ==
    IF lcol.panic THEN [outcome |-> "panic", light |-> light, dark |-> dark]
    ELSE IF lcol.err THEN [outcome |-> "error", light |-> light, dark |-> dark]
    ELSE IF dcol.panic THEN [outcome |-> "panic", light |-> light, dark |-> dark]
    ELSE IF dcol.err THEN [outcome |-> "error", light |-> light, dark |-> dark]
    ELSE [outcome |-> "ok",
          light |-> PutScheme(light, colname, [Col |-> lcol.col, AdwName |-> color]),
          dark |-> PutScheme(dark, colname, [Col |-> dcol.col, AdwName |-> color])]

\* the body of the loop of lines 525-542 for one entry of colorToGet
WidgetStep(rws, light, dark, colname) ==
    WidgetStore(light, dark, colname, colorToGet[colname],
                getWidgetColorFor(rws, colorToGet[colname], "light"),
                getWidgetColorFor(rws, colorToGet[colname], "dark"))

\* one iteration of "for colname, color := range colorToGet": the map is
\* visited in an order Go does not specify
G_WidgetColor ==
    /\ pc = "g_widget"
    /\ \E colname \in DOMAIN colorToGet \ visited :
        \E r \in {WidgetStep(rows, lightScheme, darkScheme, colname)} :
            /\ lightScheme' = r.light
            /\ darkScheme' = r.dark
            /\ stages' = Log(stages, "map", r.outcome = "ok")
            /\ CASE r.outcome = "ok" ->
                      /\ visited' = IF visited \cup {colname} = DOMAIN colorToGet
                                    THEN {} ELSE visited \cup {colname}
                      /\ pc' = IF visited \cup {colname} = DOMAIN colorToGet
                               THEN "g_standard" ELSE "g_widget"
                      /\ UNCHANGED <<err, status>>
                 [] r.outcome = "error" ->
                      /\ pc' = "g_return" /\ err' = TRUE
                      /\ UNCHANGED <<visited, status>>
                 [] r.outcome = "panic" ->
                      /\ pc' = "exit" /\ status' = "panic"
                      /\ UNCHANGED <<visited, err>>
    /\ UNCHANGED <<env, run, rows, buffer, icons, tarPos, tmpMade, files, before, writes, last>>

\* lines 554-575, given what the two calls of getStandardColorFor returned:
\* the two checks of err, the scroll bar's alpha, the two assignments
StandardStore(light, dark, colname, names, lcol, dcol) ==
    IF lcol.panic THEN [outcome |-> "panic", light |-> light, dark |-> dark]
    ELSE IF lcol.err THEN [outcome |-> "error", light |-> light, dark |-> dark]
    ELSE IF dcol.panic THEN [outcome |-> "panic", light |-> light, dark |-> dark]
    ELSE IF dcol.err THEN [outcome |-> "error", light |-> light, dark |-> dark]
    ELSE [outcome |-> "ok",
          light |-> PutScheme(light, colname,
                        [Col |-> ScrollBarAlpha(colname, lcol.col), AdwName |-> names.light]),
          dark |-> PutScheme(dark, colname,
                        [Col |-> ScrollBarAlpha(colname, dcol.col), AdwName |-> names.dark])]

\* StandardStep leaving out a colour whose name no row of the page holds
StandardStep_SkipNotFound(rws, light, dark, colname) ==
    LET names == StandardNames(standardColorToGet[colname])
        r == StandardStore(light, dark, colname, names,
                           getStandardColorFor(rws, names.light),
                           getStandardColorFor(rws, names.dark))
    IN  [outcome |-> r.outcome,
         light |-> IF FirstRowFor(rws, names.light) = 0 THEN light ELSE r.light,
         dark |-> IF FirstRowFor(rws, names.dark) = 0 THEN dark ELSE r.dark]

\* the body of the loop of lines 544-576 for one entry of standardColorToGet
StandardStep(rws, light, dark, colname) ==
    LET names == StandardNames(standardColorToGet[colname])
    IN  StandardStore(light, dark, colname, names,
                      getStandardColorFor(rws, names.light),
                      getStandardColorFor(rws, names.dark))

\* one iteration of "for colname, color := range standardColorToGet"
G_StandardColor ==
    /\ pc = "g_standard"
    /\ \E colname \in DOMAIN standardColorToGet \ visited :
        \E r \in {StandardStep(rows, lightScheme, darkScheme, colname)} :
            /\ lightScheme' = r.light
            /\ darkScheme' = r.dark
            /\ stages' = Log(stages, "map", r.outcome = "ok")
            /\ CASE r.outcome = "ok" ->
                      /\ visited' = IF visited \cup {colname} = DOMAIN standardColorToGet
                                    THEN {} ELSE visited \cup {colname}
                      /\ pc' = IF visited \cup {colname} = DOMAIN standardColorToGet
                               THEN "g_tplparse" ELSE "g_standard"
                      /\ UNCHANGED <<err, status>>
                 [] r.outcome = "error" ->
                      /\ pc' = "g_return" /\ err' = TRUE
                      /\ UNCHANGED <<visited, status>>
                 [] r.outcome = "panic" ->
                      /\ pc' = "exit" /\ status' = "panic"
                      /\ UNCHANGED <<visited, err>>
    /\ UNCHANGED <<env, run, rows, buffer, icons, tarPos, tmpMade, files, before, writes, last>>

\* lines 578-582: tpl.Parse
G_TplParse ==
    /\ pc = "g_tplparse"
    /\ \E ok \in BOOLEAN :
        /\ stages' = Log(stages, "render", ok)
        /\ IF ok THEN pc' = "g_execute" /\ err' = err
                 ELSE pc' = "g_return" /\ err' = TRUE
    /\ UNCHANGED <<env, run, status, locals, tmpMade, files, before, writes, last>>

\* lines 584-594: tpl.Execute into the buffer
G_TplExecute ==
    /\ pc = "g_execute"
    /\ \E ok \in BOOLEAN :
        /\ stages' = Log(stages, "render", ok)
        /\ IF ok THEN /\ buffer' = ExecuteColorSourceTpl(lightScheme, darkScheme)
                      /\ pc' = "g_format" /\ err' = err
                 ELSE /\ buffer' = buffer
                      /\ pc' = "g_return" /\ err' = TRUE
    /\ UNCHANGED <<env, run, status, rows, lightScheme, darkScheme, visited, icons,
                   tarPos, tmpMade, files, before, writes, last>>

\* G_Format going on to the write with the buffer as it is when format.Source
\* fails
G_Format_ErrorIgnored ==
    /\ pc = "g_format"
    /\ \E ok \in BOOLEAN :
        /\ stages' = Log(stages, "format", ok)
        /\ buffer' = IF ok THEN FormatSource(buffer) ELSE buffer
    /\ pc' = "g_write"
    /\ UNCHANGED <<env, run, status, err, rows, lightScheme, darkScheme, visited, icons,
                   tarPos, tmpMade, files, before, writes, last>>

\* lines 597-599: format.Source
G_Format ==
    /\ pc = "g_format"
    /\ \E ok \in BOOLEAN :
        /\ stages' = Log(stages, "format", ok)
        /\ IF ok THEN /\ buffer' = FormatSource(buffer)
                      /\ pc' = "g_write" /\ err' = err
                 ELSE /\ buffer' = buffer
                      /\ pc' = "g_return" /\ err' = TRUE
    /\ UNCHANGED <<env, run, status, rows, lightScheme, darkScheme, visited, icons,
                   tarPos, tmpMade, files, before, writes, last>>

\* os.WriteFile: the file is opened (created or truncated), then written; it
\* fails before it opened the file, or after, or not at all
WriteOutcomes == {"ok", "open failed", "write failed"}

WriteResult(fs, path, data, outcome) ==
    CASE outcome = "ok" -> WriteFile(fs, path, data)
      [] outcome = "write failed" -> WriteFile(fs, path, EmptyFile)
      [] OTHER -> fs

\* line 600: os.WriteFile(colorSchemeOutput, formatted, 0644)
G_Write ==
    /\ pc = "g_write"
    /\ \E outcome \in WriteOutcomes :
        /\ files' = WriteResult(files, colorSchemeOutput, buffer, outcome)
        /\ stages' = Log(stages, "write", outcome = "ok")
        /\ err' = (outcome # "ok")
    /\ writes' = [writes EXCEPT ![colorSchemeOutput] = @ + 1]
    /\ pc' = "g_return"
    /\ UNCHANGED <<env, run, status, locals, tmpMade, before, last>>

\* G_Return with main going on to generateIcons whatever generateColorScheme
\* returned
G_Return_ErrorIgnored ==
    /\ prog = "theme" /\ pc = "g_return"
    /\ last' = IF err THEN NoLast
                ELSE [last EXCEPT !.colorsOK = TRUE, !.light = lightScheme,
                                  !.dark = darkScheme,
                                  !.colorsFile = ReadFile(files, colorSchemeOutput)]
    /\ ClearLocals
    /\ err' = FALSE
    /\ pc' = "i_fetch" /\ status' = status /\ stages' = <<>>
    /\ UNCHANGED <<env, run, tmpMade, files, before, writes>>

\* generateColorScheme returns to main (lines 462-464), which ends the
\* process on an error and goes on to generateIcons otherwise
G_Return ==
    /\ prog = "theme" /\ pc = "g_return"
    /\ last' = IF err THEN NoLast
                ELSE [last EXCEPT !.colorsOK = TRUE, !.light = lightScheme,
                                  !.dark = darkScheme,
                                  !.colorsFile = ReadFile(files, colorSchemeOutput)]
    /\ ClearLocals
    /\ err' = FALSE
    /\ IF err THEN pc' = "exit" /\ status' = "fatal" /\ stages' = stages
              ELSE pc' = "i_fetch" /\ status' = status /\ stages' = <<>>
    /\ UNCHANGED <<env, run, tmpMade, files, before, writes>>

(***************************************************************************)
(* generateIcons (lines 607-701).                                          *)
(***************************************************************************)
\* iconsToGet (lines 337-443), in part: a symbolic icon, a forced-PNG icon,
\* an icon with no file yet, a second symbolic icon
iconsToGet ==
    [k \in {"IconNameCancel", "IconNameFileAudio", "IconNameHistory", "IconNameMoveDown"} |->
        CASE k = "IconNameCancel" ->
                 Dirs(<<"symbolic", "ui">>) \o <<FileName("window-close-symbolic", ".svg")>>
          [] k = "IconNameFileAudio" ->
                 Dirs(<<"scalable", "mimetypes">>) \o <<FileName("audio-x-generic", ".svg")>>
          [] k = "IconNameHistory" -> <<>>
          [] k = "IconNameMoveDown" ->
                 Dirs(<<"symbolic", "actions">>) \o <<FileName("go-down-symbolic", ".svg")>>]

\* forcePNG (lines 445-448), for the names of iconsToGet above
forcePNG == {"IconNameFileAudio"}

IconOrder == <<"IconNameCancel", "IconNameFileAudio", "IconNameHistory", "IconNameMoveDown">>

\* the directory of the icons in the archive (line 657)
ArchiveRoot == Dirs(<<"adwaita-icon-theme-master-Adwaita", "Adwaita">>)

\* the entries an archive may hold: two icons, a regular file whose name
\* climbs out of the directory it is extracted in, a directory
EntryPool ==
    << [Typeflag |-> "TypeReg",
        Name |-> ArchiveRoot \o Dirs(<<"symbolic", "ui">>)
                     \o <<FileName("window-close-symbolic", ".svg")>>,
        Content |-> <<"svg", <<"window-close">> >>],
       [Typeflag |-> "TypeReg",
        Name |-> ArchiveRoot \o Dirs(<<"scalable", "mimetypes">>)
                     \o <<FileName("audio-x-generic", ".svg")>>,
        Content |-> <<"svg", <<"audio">> >>],
       [Typeflag |-> "TypeReg",
        Name |-> <<Elem(".."), FileName("adwaita", ".svg")>>,
        Content |-> <<"svg", <<"evil">> >>],
       [Typeflag |-> "TypeDir", Name |-> ArchiveRoot, Content |-> <<>>] >>

Archives == SeqsUpTo(DOMAIN EntryPool, MaxEntries)

\* lines 610-613: http.Get
I_Fetch ==
    /\ pc = "i_fetch"
    /\ \E ok \in BOOLEAN :
        /\ stages' = Log(stages, "fetch", ok)
        /\ IF ok THEN pc' = "i_mkdir" /\ err' = err
                 ELSE pc' = "i_return" /\ err' = TRUE
    /\ UNCHANGED <<env, run, status, locals, tmpMade, files, before, writes, last>>

\* lines 618-622: os.MkdirTemp, and the deferred os.RemoveAll(tmpDir)
I_MkdirTemp ==
    /\ pc = "i_mkdir"
    /\ \E ok \in BOOLEAN :
        /\ stages' = Log(stages, "extract", ok)
        /\ tmpMade' = ok
        /\ IF ok THEN pc' = "i_extract" /\ err' = err
                 ELSE pc' = "i_return" /\ err' = TRUE
    /\ UNCHANGED <<env, run, status, locals, files, before, writes, last>>

\* the file an entry is extracted to (line 635)
Target(header) == Join(tmpDir, header.Name)

\* lines 634-647 for one entry: what becomes of the file system
ExtractEntry(fs, header, outcome) ==
    IF header.Typeflag # "TypeReg" THEN fs
    ELSE CASE outcome = "ok" -> WriteFile(fs, Target(header), header.Content)
           [] outcome = "copy failed" -> WriteFile(fs, Target(header), EmptyFile)
           [] OTHER -> fs

ExtractOutcomes(header) ==
    IF header.Typeflag = "TypeReg"
    THEN {"ok", "read failed", "mkdir failed", "create failed", "copy failed"}
    ELSE {"ok", "read failed"}

\* one iteration of the loop of lines 625-648: the end of the archive, or
\* the next entry
I_TarNext ==
    /\ pc = "i_extract"
    /\ \/ /\ tarPos = Len(archive)
          /\ pc' = "i_icons"
          /\ UNCHANGED <<tarPos, files, err, stages>>
       \/ /\ tarPos < Len(archive)
          /\ \E outcome \in ExtractOutcomes(EntryPool[archive[tarPos + 1]]) :
              /\ files' = IF outcome = "read failed" THEN files
                          ELSE ExtractEntry(files, EntryPool[archive[tarPos + 1]], outcome)
              /\ tarPos' = tarPos + 1
              /\ stages' = Log(stages, "extract", outcome = "ok")
              /\ IF outcome = "ok" THEN pc' = pc /\ err' = err
                                   ELSE pc' = "i_return" /\ err' = TRUE
    /\ UNCHANGED <<env, run, status, rows, lightScheme, darkScheme, visited, buffer,
                   icons, tmpMade, before, writes, last>>

\* strings.TrimSuffix(iconPath, ".svg") + ".png" (line 660)
TrimSvgAddPng(name) ==
    IF name # <<>> /\ name[Len(name)] = ".svg"
    THEN Append(SubSeq(name, 1, Len(name) - 1), ".png")
    ELSE Append(name, ".png")

\* the path with the rewritten name as its last element
PngPath(iconPath) ==
    IF iconPath = <<>> THEN <<TrimSvgAddPng(<<>>)>>
    ELSE [iconPath EXCEPT ![Len(iconPath)] = TrimSvgAddPng(@)]

\* filepath.Base: the last element of a path
Base(path) == IF path = <<>> THEN Elem(".") ELSE path[Len(path)]

\* svgToPng (lines 706-719): inkscape, when there is one, writes the PNG
\* beside the SVG it could read
svgToPng(fs, filename) ==
    IF inkscape /\ filename \in DOMAIN fs
    THEN WriteFile(fs, PngPath(filename), <<"png", fs[filename]>>)
    ELSE fs

\* fyne.LoadResourceFromPath (line 663)
LoadResourceFromPath(fs, path) ==
    IF path \in DOMAIN fs THEN [err |-> FALSE, Content |-> fs[path]]
    ELSE [err |-> TRUE, Content |-> <<>>]

\* the path of the resource of an icon (lines 657-661)
IconPath(name) ==
    LET svg == Join(tmpDir, ArchiveRoot \o iconsToGet[name])
    IN  IF name \in forcePNG THEN PngPath(svg) ELSE svg

\* IconStep bundling an icon whose resource did not load, with no content
IconStep_NoSkip(fs, icns, name) ==
    LET svg == Join(tmpDir, ArchiveRoot \o iconsToGet[name])
        fs1 == IF name \in forcePNG THEN svgToPng(fs, svg) ELSE fs
        res == LoadResourceFromPath(fs1, IconPath(name))
    IN  IF iconsToGet[name] = <<>> THEN [files |-> fs, icons |-> icns]
        ELSE [files |-> fs1,
              icons |-> [k \in DOMAIN icns \cup {name} |->
                            IF k = name
                            THEN [StaticName |-> Base(IconPath(name)), Content |-> res.Content]
                            ELSE icns[k]]]

\* the body of the loop of lines 652-675 for one entry of iconsToGet
IconStep(fs, icns, name) ==
    LET svg == Join(tmpDir, ArchiveRoot \o iconsToGet[name])
        fs1 == IF name \in forcePNG THEN svgToPng(fs, svg) ELSE fs
        res == LoadResourceFromPath(fs1, IconPath(name))
    IN  IF iconsToGet[name] = <<>> THEN [files |-> fs, icons |-> icns]
        ELSE IF res.err THEN [files |-> fs1, icons |-> icns]
        ELSE [files |-> fs1,
              icons |-> [k \in DOMAIN icns \cup {name} |->
                            IF k = name
                            THEN [StaticName |-> Base(IconPath(name)), Content |-> res.Content]
                            ELSE icns[k]]]

\* one iteration of "for name, iconfile := range iconsToGet"
I_Icon ==
    /\ pc = "i_icons"
    /\ \E name \in DOMAIN iconsToGet \ visited :
        /\ \E r \in {IconStep(files, icons, name)} :
            /\ files' = r.files
            /\ icons' = r.icons
        /\ visited' = IF visited \cup {name} = DOMAIN iconsToGet
                      THEN {} ELSE visited \cup {name}
        /\ pc' = IF visited \cup {name} = DOMAIN iconsToGet THEN "i_tplparse" ELSE pc
    /\ stages' = Log(stages, "map", TRUE)
    /\ UNCHANGED <<env, run, status, err, rows, lightScheme, darkScheme, buffer, tarPos,
                   tmpMade, before, writes, last>>

\* iconSourceTpl (lines 262-293): an entry per name, the names in sorted
\* order, with the resource's name and content (whether the entry is a themed
\* resource follows from the name)
ExecuteIconSourceTpl(icns) ==
    LET names == SelectSeq(IconOrder, LAMBDA k : k \in DOMAIN icns)
    IN  [i \in 1..Len(names) |-> <<names[i], icns[names[i]].StaticName, icns[names[i]].Content>>]

\* lines 677-684: tpl.Funcs, tpl.Parse
I_TplParse ==
    /\ pc = "i_tplparse"
    /\ \E ok \in BOOLEAN :
        /\ stages' = Log(stages, "render", ok)
        /\ IF ok THEN pc' = "i_execute" /\ err' = err
                 ELSE pc' = "i_return" /\ err' = TRUE
    /\ UNCHANGED <<env, run, status, locals, tmpMade, files, before, writes, last>>

\* lines 686-694: tpl.Execute into the buffer
I_TplExecute ==
    /\ pc = "i_execute"
    /\ \E ok \in BOOLEAN :
        /\ stages' = Log(stages, "render", ok)
        /\ IF ok THEN /\ buffer' = ExecuteIconSourceTpl(icons)
                      /\ pc' = "i_format" /\ err' = err
                 ELSE /\ buffer' = buffer
                      /\ pc' = "i_return" /\ err' = TRUE
    /\ UNCHANGED <<env, run, status, rows, lightScheme, darkScheme, visited, icons,
                   tarPos, tmpMade, files, before, writes, last>>

\* lines 696-698: format.Source
I_Format ==
    /\ pc = "i_format"
    /\ \E ok \in BOOLEAN :
        /\ stages' = Log(stages, "format", ok)
        /\ IF ok THEN /\ buffer' = FormatSource(buffer)
                      /\ pc' = "i_write" /\ err' = err
                 ELSE /\ buffer' = buffer
                      /\ pc' = "i_return" /\ err' = TRUE
    /\ UNCHANGED <<env, run, status, rows, lightScheme, darkScheme, visited, icons,
                   tarPos, tmpMade, files, before, writes, last>>

\* line 699: os.WriteFile(iconsOutput, formatted, 0644)
I_Write ==
    /\ pc = "i_write"
    /\ \E outcome \in WriteOutcomes :
        /\ files' = WriteResult(files, iconsOutput, buffer, outcome)
        /\ stages' = Log(stages, "write", outcome = "ok")
        /\ err' = (outcome # "ok")
    /\ writes' = [writes EXCEPT ![iconsOutput] = @ + 1]
    /\ pc' = "i_return"
    /\ UNCHANGED <<env, run, status, locals, tmpMade, before, last>>

\* what the deferred calls of generateIcons do to the file system (line 622)
Deferred(fs, made) == IF made THEN RemoveAll(fs, tmpDir) ELSE fs

\* generateIcons returns: its deferred calls run, then main (lines 466-470)
\* ends the process, with log.Fatal on an error
I_Return ==
    /\ pc = "i_return"
    /\ files' = Deferred(files, tmpMade)
    /\ tmpMade' = FALSE
    /\ last' = IF err THEN [last EXCEPT !.iconsOK = FALSE, !.icons = EmptyMap,
                                         !.iconsFile = <<"absent">>]
                ELSE [last EXCEPT !.iconsOK = TRUE, !.icons = icons,
                                  !.iconsFile = ReadFile(files, iconsOutput)]
    /\ ClearLocals
    /\ err' = FALSE
    /\ pc' = "exit"
    /\ status' = IF err THEN "fatal" ELSE "ok"
    /\ UNCHANGED <<env, run, stages, before, writes>>

(***************************************************************************)
(* main of the colors-only program (lines 85-172).                         *)
(***************************************************************************)
\* log.Fatal(err)
Fatal == pc' = "exit" /\ status' = "fatal"

\* lines 91-94: http.Get
M_Fetch ==
    /\ prog = "colors" /\ pc = "m_fetch"
    /\ \E ok \in BOOLEAN :
        /\ stages' = Log(stages, "fetch", ok)
        /\ IF ok THEN pc' = "m_read" /\ status' = status ELSE Fatal
    /\ UNCHANGED <<env, run, err, locals, tmpMade, files, before, writes, last>>

\* lines 96-101: ioutil.ReadAll, then the rows of the page
M_ReadBody ==
    /\ pc = "m_read"
    /\ \E ok \in BOOLEAN :
        IF ok
        THEN /\ rows' = tableRowMatcher(PageHtml(page))
             /\ stages' = Log(stages, "extract", TRUE)
             /\ pc' = "m_color" /\ status' = status
        ELSE /\ rows' = rows
             /\ stages' = Log(stages, "fetch", FALSE)
             /\ Fatal
    /\ UNCHANGED <<env, run, err, lightScheme, darkScheme, visited, buffer, icons,
                   tarPos, tmpMade, files, before, writes, last>>

\* lines 124-138, given what the two calls of getColorFor returned: the two
\* checks of err, then the two assignments
ColorStore(light, dark, colname, color, lcol, dcol) ==
    IF lcol.panic THEN [outcome |-> "panic", light |-> light, dark |-> dark]
    ELSE IF lcol.err THEN [outcome |-> "error", light |-> light, dark |-> dark]
    ELSE IF dcol.panic THEN [outcome |-> "panic", light |-> light, dark |-> dark]
    ELSE IF dcol.err THEN [outcome |-> "error", light |-> light, dark |-> dark]
    ELSE [outcome |-> "ok",
          light |-> PutScheme(light, colname,
                        [Col |-> SprintfRGBA(lcol.col), AdwName |-> color]),
          dark |-> PutScheme(dark, colname,
                        [Col |-> SprintfRGBA(dcol.col), AdwName |-> color])]

\* the body of the loop of lines 122-139 for one entry of colorToGet
ColorStep(rws, light, dark, colname) ==
    ColorStore(light, dark, colname, colorToGetOld[colname],
               getColorFor(rws, colorToGetOld[colname], "light"),
               getColorFor(rws, colorToGetOld[colname], "dark"))

\* one iteration of "for colname, color := range colorToGet"
M_Color ==
    /\ pc = "m_color"
    /\ \E colname \in DOMAIN colorToGetOld \ visited :
        \E r \in {ColorStep(rows, lightScheme, darkScheme, colname)} :
            /\ lightScheme' = r.light
            /\ darkScheme' = r.dark
            /\ stages' = Log(stages, "map", r.outcome = "ok")
            /\ CASE r.outcome = "ok" ->
                      /\ visited' = IF visited \cup {colname} = DOMAIN colorToGetOld
                                    THEN {} ELSE visited \cup {colname}
                      /\ pc' = IF visited \cup {colname} = DOMAIN colorToGetOld
                               THEN "m_create" ELSE "m_color"
                      /\ status' = status
                 [] r.outcome = "error" -> Fatal /\ visited' = visited
                 [] r.outcome = "panic" ->
                      pc' = "exit" /\ status' = "panic" /\ visited' = visited
    /\ UNCHANGED <<env, run, err, rows, buffer, icons, tarPos, tmpMade, files, before,
                   writes, last>>

\* lines 141-145: os.Create(output), which makes the file or empties it
M_Create ==
    /\ pc = "m_create"
    /\ \E ok \in BOOLEAN :
        /\ stages' = Log(stages, "create", ok)
        /\ IF ok THEN /\ files' = WriteFile(files, colorSchemeOutput, EmptyFile)
                      /\ pc' = "m_tplparse" /\ status' = status
                 ELSE files' = files /\ Fatal
    /\ UNCHANGED <<env, run, err, locals, tmpMade, before, writes, last>>

\* lines 147-151: tpl.Parse
M_TplParse ==
    /\ pc = "m_tplparse"
    /\ \E ok \in BOOLEAN :
        /\ stages' = Log(stages, "render", ok)
        /\ IF ok THEN pc' = "m_execute" /\ status' = status ELSE Fatal
    /\ UNCHANGED <<env, run, err, locals, tmpMade, files, before, writes, last>>

\* lines 153-163: tpl.Execute into the buffer
M_TplExecute ==
    /\ pc = "m_execute"
    /\ \E ok \in BOOLEAN :
        /\ stages' = Log(stages, "render", ok)
        /\ IF ok THEN /\ buffer' = ExecuteSourceTpl(lightScheme, darkScheme)
                      /\ pc' = "m_format" /\ status' = status
                 ELSE buffer' = buffer /\ Fatal
    /\ UNCHANGED <<env, run, err, rows, lightScheme, darkScheme, visited, icons, tarPos,
                   tmpMade, files, before, writes, last>>

\* lines 166-170: format.Source, then out.Write(formatted), whose error is
\* not read; main returns
M_Format ==
    /\ pc = "m_format"
    /\ \/ /\ stages' = Log(stages, "format", FALSE)
          /\ Fatal
          /\ UNCHANGED <<buffer, files, writes>>
       \/ /\ buffer' = FormatSource(buffer)
          /\ \E written \in BOOLEAN :
              /\ files' = IF written
                          THEN WriteFile(files, colorSchemeOutput, FormatSource(buffer))
                          ELSE files
              /\ stages' = Log(Log(stages, "format", TRUE), "write", written)
          /\ writes' = [writes EXCEPT ![colorSchemeOutput] = @ + 1]
          /\ pc' = "exit" /\ status' = "ok"
    /\ UNCHANGED <<env, run, err, rows, lightScheme, darkScheme, visited, icons, tarPos,
                   tmpMade, before, last>>

(***************************************************************************)
(* The runs.                                                               *)
(***************************************************************************)
\* the first statement of main
Start(p) == IF p = "colors" THEN "m_fetch" ELSE "g_fetch"

Init ==
    /\ prog \in {"colors", "theme"}
    /\ \/ /\ page \in Pages /\ archive = DefaultArchive /\ inkscape = TRUE
          /\ narrowing = DefaultNarrowing
       \/ /\ prog = "theme"
          /\ page = DefaultPage /\ archive \in Archives /\ inkscape \in BOOLEAN
          /\ narrowing = DefaultNarrowing
       \/ /\ page \in WidePages /\ archive = DefaultArchive /\ inkscape = TRUE
          /\ narrowing \in Narrowings
    /\ run = 1
    /\ pc = Start(prog)
    /\ status = "running"
    /\ err = FALSE
    /\ rows = <<>>
    /\ lightScheme = EmptyMap
    /\ darkScheme = EmptyMap
    /\ visited = {}
    /\ buffer = <<>>
    /\ icons = EmptyMap
    /\ tarPos = 0
    /\ tmpMade = FALSE
    /\ files = NoFiles
    /\ before = NoFiles
    /\ stages = <<>>
    /\ writes = NoWrites
    /\ last = NoLast

\* the program is run again (go generate) after a run that succeeded, on the
\* files that run left.  (No statement of either program reads a file it
\* finds, so a run after a failed run does what a first run does.)
Rerun ==
    /\ pc = "exit" /\ status = "ok" /\ run < MaxRuns
    /\ run' = run + 1
    /\ pc' = Start(prog)
    /\ status' = "running"
    /\ err' = FALSE
    /\ ClearLocals
    /\ tmpMade' = FALSE
    /\ before' = files
    /\ stages' = <<>>
    /\ writes' = NoWrites
    /\ UNCHANGED <<env, files, last>>

Next ==
    \/ G_Fetch \/ G_ReadBody \/ G_WidgetColor \/ G_StandardColor
    \/ G_TplParse \/ G_TplExecute \/ G_Format \/ G_Write \/ G_Return
    \/ I_Fetch \/ I_MkdirTemp \/ I_TarNext \/ I_Icon
    \/ I_TplParse \/ I_TplExecute \/ I_Format \/ I_Write \/ I_Return
    \/ M_Fetch \/ M_ReadBody \/ M_Color \/ M_Create
    \/ M_TplParse \/ M_TplExecute \/ M_Format
    \/ Rerun

Spec == Init /\ [][Next]_vars

(***************************************************************************)
(* The claims.                                                             *)
(***************************************************************************)
StageOrder == <<"fetch", "extract", "map", "render", "format", "write">>

\* where the program is while a stage of generateColorScheme, and of
\* generateIcons, is still to run
ColorStagePcs ==
    {"g_fetch", "g_read", "g_widget", "g_standard", "g_tplparse", "g_execute",
     "g_format", "g_write"}
IconStagePcs ==
    {"i_fetch", "i_mkdir", "i_extract", "i_icons", "i_tplparse", "i_execute",
     "i_format", "i_write"}

\* C1: in generateColorScheme and in generateIcons the stages run in the
\* order fetch, extract, map, render, format, write: the stages so far are
\* the first stages of that order, each stage but the one under way has
\* succeeded, a run writes an output file at most once, and no stage of a
\* generation is left to run once its file is written.
C1_StagesInOrder ==
    prog = "theme" =>
        /\ Len(stages) <= Len(StageOrder)
        /\ \A i \in DOMAIN stages :
            /\ stages[i].stage = StageOrder[i]
            /\ i < Len(stages) => stages[i].ok
        /\ \A f \in DOMAIN writes : writes[f] <= 1
        /\ writes[colorSchemeOutput] = 1 => pc \notin ColorStagePcs
        /\ writes[iconsOutput] = 1 => pc \notin IconStagePcs

\* a run of the theme generator that went through every stage of both
\* generations and wrote both files
C1_Witness ==
    /\ prog = "theme" /\ pc = "i_return" /\ ~err
    /\ Len(stages) = Len(StageOrder)
    /\ writes[colorSchemeOutput] = 1 /\ writes[iconsOutput] = 1

\* the stage at which the run failed
FailedStage == stages[Len(stages)].stage

\* the output file of the generation that failed
FailedOutput ==
    IF prog = "theme" /\ last.colorsOK THEN iconsOutput ELSE colorSchemeOutput

\* C2: when a stage before the write fails, the run ends with log.Fatal and
\* the output file of that generation is as the run found it: not created,
\* not modified.
C2_FailedRunKeepsOutput ==
    (status = "fatal" /\ stages # <<>> /\ FailedStage # "write") =>
        ReadFile(files, FailedOutput) = ReadFile(before, FailedOutput)

\* the colour the source calls c[n-1][1] for the row of the page at index i:
\* the n-th colour cell the row was written with
PageCell(i, n) == stringToColor(RowPool[page[i]].cells[n]).c

\* C3: for a name of colorToGet whose row is found, the light entry is the
\* colour of the first colour cell of that row and the dark entry the colour
\* of the second colour cell of the same row.
C3_LightFirstDarkSecond ==
    \A k \in DOMAIN lightScheme \cap DOMAIN darkScheme :
        LET table == IF prog = "colors" THEN colorToGetOld ELSE colorToGet
            i == IF k \in DOMAIN table THEN FirstRowFor(rows, table[k]) ELSE 0
        IN  i # 0 =>
                IF prog = "colors"
                THEN /\ lightScheme[k].Col = SprintfRGBA(PageCell(i, 1))
                     /\ darkScheme[k].Col = SprintfRGBA(PageCell(i, 2))
                ELSE /\ lightScheme[k].Col = PageCell(i, 1)
                     /\ darkScheme[k].Col = PageCell(i, 2)

\* the theme generator has an entry for a name whose row is found, and the
\* light and the dark colour of the row differ
C3_Witness ==
    /\ prog = "theme"
    /\ "theme.ColorNameInputBackground" \in DOMAIN lightScheme \cap DOMAIN darkScheme
    /\ FirstRowFor(rows, view_bg_color) # 0
    /\ lightScheme["theme.ColorNameInputBackground"].Col
         # darkScheme["theme.ColorNameInputBackground"].Col

\* C4: a second run on the same page and the same archive produces the
\* schemes, the colour file, the icon map and the icon file of the run before
\* it, whatever the order in which either run visited the maps.
C4_SameResultEveryRun ==
    (prog = "theme" /\ run > 1 /\ ~err) =>
        /\ (pc = "g_return" /\ last.colorsOK) =>
               /\ lightScheme = last.light
               /\ darkScheme = last.dark
               /\ ReadFile(files, colorSchemeOutput) = last.colorsFile
        /\ (pc = "i_return" /\ last.iconsOK) =>
               /\ icons = last.icons
               /\ ReadFile(files, iconsOutput) = last.iconsFile

\* a second run that bundled icons, after a first run that filled its schemes
C4_Witness ==
    /\ prog = "theme" /\ run > 1 /\ ~err /\ pc = "i_return"
    /\ last.iconsOK /\ DOMAIN icons # {}
    /\ last.colorsOK /\ DOMAIN last.light # {}

\* C5: after a successful generateColorScheme the light and the dark scheme
\* have the same keys: the keys of colorToGet and of standardColorToGet.
C5_SchemesHaveAllKeys ==
    (prog = "theme" /\ pc = "g_return" /\ ~err) =>
        /\ DOMAIN lightScheme = DOMAIN colorToGet \cup DOMAIN standardColorToGet
        /\ DOMAIN darkScheme = DOMAIN lightScheme

\* generateColorScheme succeeded on a page that lacks some of the names
C5_Witness ==
    /\ prog = "theme" /\ pc = "g_return" /\ ~err
    /\ \E k \in DOMAIN standardColorToGet :
        FirstRowFor(rows, StandardNames(standardColorToGet[k]).dark) = 0

\* the files of the file system that are no output file
OtherFiles == DOMAIN files \ {colorSchemeOutput, iconsOutput}

\* C6: every file extraction creates lies inside the temporary directory.
C6_ExtractedInsideTmpDir ==
    \A path \in OtherFiles : Inside(path, tmpDir)

\* C7: when the process ends, the temporary directory and every extracted
\* file are gone.
C7_NothingSurvives ==
    (prog = "theme" /\ pc = "exit") => OtherFiles = {}

\* C8: at the render stage the bundled icons are the names of iconsToGet
\* with a path whose resource file is there to load; a name that was skipped
\* has not failed the run.
C8_BundledAreLoadable ==
    pc \in {"i_tplparse", "i_execute"} =>
        /\ DOMAIN icons =
               {n \in DOMAIN iconsToGet :
                    iconsToGet[n] # <<>> /\ IconPath(n) \in DOMAIN files}
        /\ \A n \in DOMAIN icons : icons[n].Content = files[IconPath(n)]
        /\ ~err

\* the render stage with an icon bundled, an icon that did not load and an
\* icon without a path
C8_Witness ==
    /\ pc = "i_tplparse"
    /\ "IconNameCancel" \in DOMAIN icons
    /\ "IconNameFileAudio" \notin DOMAIN icons
    /\ "IconNameHistory" \notin DOMAIN icons

\* the places of the commas of a string
Commas(v) == {i \in DOMAIN v : v[i] = ","}

\* the names the claim has a standard colour looked up under
ClaimedNames(v) ==
    IF Cardinality(Commas(v)) = 1
    THEN LET c == CHOOSE i \in Commas(v) : TRUE
         IN  [light |-> SubSeq(v, 1, c - 1), dark |-> SubSeq(v, c + 1, Len(v))]
    ELSE [light |-> v, dark |-> v]

\* C9: an entry of standardColorToGet with two comma-separated names has its
\* light colour looked up under the first and its dark colour under the
\* second; any other entry has both looked up under the whole value; the
\* Adwaita name recorded is the name looked up.
C9_StandardNames ==
    prog = "theme" =>
        \A k \in DOMAIN standardColorToGet \cap DOMAIN lightScheme \cap DOMAIN darkScheme :
            LET n == ClaimedNames(standardColorToGet[k])
            IN  /\ lightScheme[k].AdwName = n.light
                /\ darkScheme[k].AdwName = n.dark
                /\ lightScheme[k].Col
                     = ScrollBarAlpha(k, getStandardColorFor(rows, n.light).col)
                /\ darkScheme[k].Col
                     = ScrollBarAlpha(k, getStandardColorFor(rows, n.dark).col)

\* both kinds of entry are recorded, and the two names of theme.ColorRed gave
\* two colours (a page with a row for one of red_3 and red_4)
C9_Witness ==
    /\ prog = "theme"
    /\ {"theme.ColorRed", "theme.ColorGray"} \subseteq DOMAIN lightScheme
    /\ lightScheme["theme.ColorRed"].AdwName = red_3
    /\ darkScheme["theme.ColorRed"].AdwName = red_4
    /\ lightScheme["theme.ColorRed"].Col # darkScheme["theme.ColorRed"].Col
    /\ lightScheme["theme.ColorGray"].AdwName = dark_2

\* the rows of the page that define name
DefiningRows(name) == {i \in DOMAIN page : RowPool[page[i]].name = name}

\* what a light entry holds when its colour is the first colour of row i
LightEntryOf(k, i) ==
    IF prog = "colors" THEN SprintfRGBA(PageCell(i, 1))
    ELSE ScrollBarAlpha(k, PageCell(i, 1))

\* C10: the colour of an entry is read from a row that defines the name the
\* entry was looked up under (and is the zero colour when no row defines it),
\* never from a row that defines another name.
C10_RowDefinesName ==
    \A k \in DOMAIN lightScheme :
        LET defs == DefiningRows(lightScheme[k].AdwName)
        IN  IF defs = {}
            THEN lightScheme[k].Col
                   = (IF prog = "colors" THEN SprintfRGBA(ZeroColor)
                      ELSE ScrollBarAlpha(k, ZeroColor))
            ELSE \E i \in defs :
                    /\ RowPool[page[i]].cells # <<>>
                    /\ lightScheme[k].Col = LightEntryOf(k, i)

\* where the program is from the first statement of generateIcons to its
\* return
IconPcs == IconStagePcs \cup {"i_return"}

\* C11: in main of the theme generator generateIcons starts only once
\* generateColorScheme has returned with no error, that is with the colour
\* file written in this run; a run whose colour generation failed has
\* fetched no archive, made no temporary directory, extracted nothing and
\* left the icon file as it found it.
C11_ColorsBeforeIcons ==
    prog = "theme" =>
        /\ pc \in IconPcs =>
               /\ last.colorsOK
               /\ writes[colorSchemeOutput] = 1
               /\ colorSchemeOutput \in DOMAIN files
               /\ files[colorSchemeOutput] # EmptyFile
               /\ files[colorSchemeOutput] = last.colorsFile
        /\ pc \in ColorStagePcs \cup {"g_return"} =>
               /\ writes[iconsOutput] = 0
               /\ ~tmpMade
               /\ OtherFiles = DOMAIN before \ {colorSchemeOutput, iconsOutput}
               /\ ReadFile(files, iconsOutput) = ReadFile(before, iconsOutput)
        /\ (pc = "exit" /\ status \in {"fatal", "panic"} /\ ~last.colorsOK) =>
               /\ writes[iconsOutput] = 0
               /\ ~tmpMade
               /\ OtherFiles = DOMAIN before \ {colorSchemeOutput, iconsOutput}
               /\ ReadFile(files, iconsOutput) = ReadFile(before, iconsOutput)

\* a second run whose colour generation failed, in a directory where the
\* first run left both files: the icon file is the first run's
C11_Witness ==
    /\ prog = "theme" /\ run > 1 /\ pc = "exit" /\ status = "fatal"
    /\ ~last.colorsOK
    /\ iconsOutput \in DOMAIN files
    /\ writes[iconsOutput] = 0

\* where the program is while it has the rows of the page it fetched
HasRows ==
    \/ pc \in {"g_widget", "g_standard", "g_tplparse", "g_execute", "g_format",
               "g_write", "g_return"}
    \/ pc \in {"m_color", "m_create", "m_tplparse", "m_execute", "m_format"}
    \/ pc = "exit" /\ (prog = "colors" \/ status = "panic")

\* no table row of the page contains the name, after an @ or an &#64;
NoRowHolds(name) ==
    \A i \in DOMAIN rows :
        /\ ~Contains(rows[i][1], AtEncoded \o name)
        /\ ~Contains(rows[i][1], AtSign \o name)

\* the Adwaita names the run looks up
LookedUp ==
    IF prog = "colors" THEN Range(colorToGetOld)
    ELSE Range(colorToGet)
           \cup {StandardNames(standardColorToGet[k]).light : k \in DOMAIN standardColorToGet}
           \cup {StandardNames(standardColorToGet[k]).dark : k \in DOMAIN standardColorToGet}

\* what is emitted for the zero colour under the theme colour name k
ZeroEntry(k) ==
    IF prog = "colors" THEN SprintfRGBA([R |-> 0, G |-> 0, B |-> 0, A |-> 0])
    ELSE IF k = "theme.ColorNameScrollBar" THEN [R |-> 0, G |-> 0, B |-> 0, A |-> 91]
    ELSE [R |-> 0, G |-> 0, B |-> 0, A |-> 0]

\* a lookup that returned the zero colour and no error
ZeroNoError(r) ==
    r.col = [R |-> 0, G |-> 0, B |-> 0, A |-> 0] /\ ~r.err /\ ~r.panic

\* C12: a lookup of a name that no row of the page contains returns the
\* zero colour and no error; the run does not fail for it (the map stage
\* fails only on a row it found); the entry is emitted with the zero colour,
\* with alpha 0x5b for theme.ColorNameScrollBar; and the output file is
\* written with every entry.
C12_NotFoundIsZero ==
    /\ pc \in {"g_widget", "g_standard", "m_color"} =>
         \A name \in LookedUp :
           NoRowHolds(name) =>
               /\ ZeroNoError(getWidgetColorFor(rows, name, "light"))
               /\ ZeroNoError(getWidgetColorFor(rows, name, "dark"))
               /\ ZeroNoError(getStandardColorFor(rows, name))
               /\ ZeroNoError(getColorFor(rows, name, "light"))
               /\ ZeroNoError(getColorFor(rows, name, "dark"))
    /\ \A k \in DOMAIN lightScheme :
           NoRowHolds(lightScheme[k].AdwName) => lightScheme[k].Col = ZeroEntry(k)
    /\ \A k \in DOMAIN darkScheme :
           NoRowHolds(darkScheme[k].AdwName) => darkScheme[k].Col = ZeroEntry(k)
    /\ (HasRows /\ stages # <<>> /\ FailedStage = "map" /\ ~stages[Len(stages)].ok) =>
           \E name \in LookedUp : ~NoRowHolds(name)
    /\ (prog = "theme" /\ pc = "g_return" /\ ~err) =>
           /\ DOMAIN lightScheme = DOMAIN colorToGet \cup DOMAIN standardColorToGet
           /\ DOMAIN darkScheme = DOMAIN colorToGet \cup DOMAIN standardColorToGet
           /\ ReadFile(files, colorSchemeOutput)
                = FormatSource(ExecuteColorSourceTpl(lightScheme, darkScheme))
    /\ (prog = "colors" /\ pc = "exit" /\ status = "ok") =>
           /\ DOMAIN lightScheme = DOMAIN colorToGetOld
           /\ DOMAIN darkScheme = DOMAIN colorToGetOld
           /\ writes[colorSchemeOutput] = 1

\* generateColorScheme succeeded on a page with no row for shade_color, for
\* dark_2 or for the two names of the scroll bar
C12_Witness ==
    /\ prog = "theme" /\ pc = "g_return" /\ ~err
    /\ NoRowHolds(shade_color) /\ NoRowHolds(dark_5) /\ NoRowHolds(light_1)
    /\ lightScheme["theme.ColorNameShadow"].Col = ZeroColor
    /\ darkScheme["theme.ColorNameScrollBar"].Col.A = 91
    /\ colorSchemeOutput \in DOMAIN files
    /\ files[colorSchemeOutput] # EmptyFile

\* the colour strings of the page, while the program looks colours up
ColourStrings ==
    IF pc \in {"g_widget", "g_standard", "m_color"}
    THEN UNION {Range(RowPool[page[i]].cells) : i \in DOMAIN page}
    ELSE {}

\* the value of a hexadecimal digit, of either case
HexValue(ch) ==
    CHOOSE v \in 0..15 : HexDigits[v + 1] = ch \/ UpperHexDigits[v + 1] = ch

\* "#" and then hexadecimal digits only
IsHexString(s) ==
    /\ s # <<>> /\ s[1] = "#"
    /\ \A i \in 2..Len(s) :
          \E v \in 0..15 : HexDigits[v + 1] = s[i] \/ UpperHexDigits[v + 1] = s[i]

\* the value of the k-th pair of digits of "#RRGGBB" or "#RRGGBBAA"
HexPair(s, k) == 16 * HexValue(s[2 * k]) + HexValue(s[2 * k + 1])

\* the value of a decimal numeral
RECURSIVE Decimal(_)
Decimal(t) ==
    IF t = <<>> THEN 0
    ELSE 10 * Decimal(SubSeq(t, 1, Len(t) - 1)) + HexValue(t[Len(t)])

IsNumeral(t) == t # <<>> /\ \A i \in DOMAIN t : \E v \in 0..9 : HexDigits[v + 1] = t[i]

\* how many decimal digits t has from index i on
RECURSIVE DigitRun(_, _)
DigitRun(t, i) ==
    IF i <= Len(t) /\ IsNumeral(<<t[i]>>) THEN 1 + DigitRun(t, i + 1) ELSE 0

\* t without the spaces it starts with
RECURSIVE Unspaced(_)
Unspaced(t) ==
    IF SpaceWidth(t, 1) > 0 THEN Unspaced(SubSeq(t, SpaceWidth(t, 1) + 1, Len(t))) ELSE t

\* what follows "rgba(", cut at the commas
RgbaParts(s) ==
    IF Len(s) >= 5 /\ SubSeq(s, 1, 5) = <<"r", "g", "b", "a", "(">>
    THEN Split(SubSeq(s, 6, Len(s)), <<",">>)
    ELSE <<>>

\* a space follows the comma before part k, as in "rgba(r, g, b, a)"
SpaceBefore(s, k) == SpaceWidth(RgbaParts(s)[k], 1) > 0

\* the three integers r, g, b are there, each one of 0..255, and the alpha
\* field is reached
IntsRead(s) ==
    /\ Len(RgbaParts(s)) >= 4
    /\ \A k \in 1..3 :
          /\ IsNumeral(Unspaced(RgbaParts(s)[k]))
          /\ Decimal(Unspaced(RgbaParts(s)[k])) <= 255
    /\ \A k \in 2..4 : SpaceBefore(s, k)

\* the float32 of the decimal number of digits all, n2 of them after the
\* period, times 255 in float32
Times255OfDecimal(neg, all, n2) ==
    IF all = <<>> \/ StripZeros(all) = <<>> THEN Float32("finite", neg, 0, 0)
    ELSE Times255(Float32Of(NatOfDec(all, <<>>), NatTimesPow10(<<1>>, n2), neg).val)

\* the number the text t has from index i on: digits, and a period with
\* digits; whether ")" follows it, and its value times 255
AlphaDigits(t, i, neg, n1, dot) ==
    LET n2 == IF dot THEN DigitRun(t, i + n1 + 1) ELSE 0
        end == i + n1 + (IF dot THEN 1 + n2 ELSE 0)
    IN  [read |-> n1 + n2 > 0,
         closed |-> end <= Len(t) /\ t[end] = ")",
         times255 |-> Times255OfDecimal(neg, SubSeq(t, i, i + n1 - 1)
                                             \o SubSeq(t, i + n1 + 1, i + n1 + n2), n2)]

\* the number the text t starts with, its sign first if it has one
AlphaNumber(t) ==
    IF t # <<>> /\ t[1] \in {"+", "-"}
    THEN AlphaDigits(t, 2, t[1] = "-", DigitRun(t, 2),
                     2 + DigitRun(t, 2) <= Len(t) /\ t[2 + DigitRun(t, 2)] = ".")
    ELSE AlphaDigits(t, 1, FALSE, DigitRun(t, 1),
                     1 + DigitRun(t, 1) <= Len(t) /\ t[1 + DigitRun(t, 1)] = ".")

\* the alpha field of s, when the three integers before it are there
AlphaOfString(s) ==
    IF IntsRead(s) THEN AlphaNumber(Unspaced(RgbaParts(s)[4]))
    ELSE [read |-> FALSE, closed |-> FALSE, times255 |-> Float32Zero]

\* the integer part of the magnitude of a finite p, modulo 256
IntegerPartMod256(p) ==
    IF p.exp >= 8 THEN 0
    ELSE IF p.exp >= 0 THEN ((p.man % 256) * 2 ^ p.exp) % 256
    ELSE IF -p.exp > 24 THEN 0
    ELSE (p.man \div 2 ^ (-p.exp)) % 256

\* c.A is the finite p truncated to 8 bits: the low 8 bits of the integer
\* part of p, in two's complement (126 for 382.5, 129 for -127.5)
Truncated(A, p) ==
    p.class = "finite" =>
        A = (IF p.neg THEN (256 - IntegerPartMod256(p)) % 256 ELSE IntegerPartMod256(p))

\* p is 2^31 or more, +Inf included
From2To31(p) ==
    /\ p.class # "nan" /\ ~p.neg
    /\ p.class = "inf" \/ BitLen(p.man) + p.exp >= 32

\* c.A is p truncated to 8 bits, the build deciding from 2^31 on
TruncatedOnBuild(A, p) ==
    IF From2To31(p) THEN A = (IF narrowing = "arm64" THEN 255 ELSE 0)
    ELSE Truncated(A, p)

\* the result r for a string of the form #RRGGBB or #RRGGBBAA
HexAsClaimed(s, r) ==
    /\ (Len(s) = 7 /\ IsHexString(s)) =>
          /\ ~r.err
          /\ r.c = [R |-> HexPair(s, 1), G |-> HexPair(s, 2), B |-> HexPair(s, 3),
                    A |-> 255]
    /\ (Len(s) = 9 /\ IsHexString(s)) =>
          /\ ~r.err
          /\ r.c = [R |-> HexPair(s, 1), G |-> HexPair(s, 2), B |-> HexPair(s, 3),
                    A |-> HexPair(s, 4)]

\* the three channels of a string of any other length that is read to its
\* end, and no error
RgbaChannels(s, r, a) ==
    (Len(s) \notin {7, 9} /\ a.read /\ a.closed) =>
        /\ ~r.err
        /\ r.c.R = Decimal(Unspaced(RgbaParts(s)[1]))
        /\ r.c.G = Decimal(Unspaced(RgbaParts(s)[2]))
        /\ r.c.B = Decimal(Unspaced(RgbaParts(s)[3]))

\* the alpha of a string of any other length that is read to its end
RgbaAlpha(s, r, a) ==
    (Len(s) \notin {7, 9} /\ a.read /\ a.closed) => TruncatedOnBuild(r.c.A, a.times255)

\* the result r for a string of any other length that is not read to its
\* end: the error, and the alpha that was read, 0 when none was
RgbaFailure(s, r, a) ==
    (Len(s) \notin {7, 9} /\ ~(a.read /\ a.closed)) =>
        /\ r.err
        /\ IF a.read THEN TruncatedOnBuild(r.c.A, a.times255) ELSE r.c.A = 0

\* C13 as amended: stringToColor dispatches on the length of its input:
\* #RRGGBB gives the three pairs and alpha 0xff, #RRGGBBAA the four pairs,
\* any other length is read as rgba(r, g, b, a) with alpha a*255 truncated to
\* 8 bits (from 2^31 on the build decides: 0 on amd64, 255 on arm64); when
\* this last parse fails the error is returned and the alpha is 0 if the
\* parse failed before it read the alpha field, and the a*255, truncated to
\* 8 bits, of the alpha it read if it failed after it.
C13_ColourOfString ==
    \A s \in ColourStrings :
        /\ HexAsClaimed(s, stringToColor(s))
        /\ RgbaChannels(s, stringToColor(s), AlphaOfString(s))
        /\ RgbaAlpha(s, stringToColor(s), AlphaOfString(s))
        /\ RgbaFailure(s, stringToColor(s), AlphaOfString(s))

\* the program looks colours up on a page that holds a #RRGGBBAA colour, a
\* string of 7 bytes that is no #RRGGBB colour, an rgba colour that stops
\* before the alpha, and two with their alpha and no closing parenthesis,
\* one of them with the alpha 0xff
C13_Witness ==
    /\ pc \in {"g_widget", "g_standard", "m_color"}
    /\ \E s \in ColourStrings : Len(s) = 9 /\ ~stringToColor(s).err
    /\ \E s \in ColourStrings :
          /\ Len(s) = 7 /\ ~IsHexString(s)
          /\ stringToColor(s).err /\ stringToColor(s).c.A = 255
    /\ \E s \in ColourStrings :
          /\ Len(s) \notin {7, 9}
          /\ AlphaOfString(s).read /\ ~AlphaOfString(s).closed
          /\ stringToColor(s).err /\ stringToColor(s).c.A = 127
    /\ \E s \in ColourStrings :
          /\ Len(s) \notin {7, 9}
          /\ AlphaOfString(s).read /\ ~AlphaOfString(s).closed
          /\ stringToColor(s).err /\ stringToColor(s).c.A = 255
    /\ \E s \in ColourStrings :
          /\ Len(s) \notin {7, 9}
          /\ ~AlphaOfString(s).read
          /\ stringToColor(s).err /\ stringToColor(s).c.A = 0
    /\ DOMAIN lightScheme # {}

\* C13: stringToColor dispatches on the length of its input: #RRGGBB gives
\* the three pairs and alpha 0xff, #RRGGBBAA the four pairs, any other
\* length is read as rgba(r, g, b, a) with alpha a*255 truncated to 8 bits;
\* when this last parse fails the error is returned and the alpha of the
\* colour is 0.
C13_AlphaZeroOnError ==
    \A s \in ColourStrings :
        /\ HexAsClaimed(s, stringToColor(s))
        /\ RgbaChannels(s, stringToColor(s), AlphaOfString(s))
        /\ (Len(s) \notin {7, 9} /\ AlphaOfString(s).read /\ AlphaOfString(s).closed)
              => Truncated(stringToColor(s).c.A, AlphaOfString(s).times255)
        /\ (Len(s) \notin {7, 9} /\ stringToColor(s).err) => stringToColor(s).c.A = 0
=============================================================================
